---- MODULE Spec2Model ----
(***************************************************************************)
(* A model of the policy-governed tool-access broker of neuronx:           *)
(*   MCPBridge (capability registry, permission gate, route_call),         *)
(*   GitHubMCPProvider (adapter), MCPSelector (autonomous decision),       *)
(*   PolicyEngine (risk classifier), run_stdio_command (stdio executor),   *)
(*   MemoryStore (durable memory).                                         *)
(*                                                                         *)
(* Text is modelled as a sequence of one-character strings wherever the    *)
(* code looks inside it (substring tests, replace, JSON decoding); names   *)
(* that the code only compares for equality are atomic strings.            *)
(***************************************************************************)
EXTENDS Integers, Sequences, FiniteSets, TLC

VARIABLES
    config,              \* MCPBridge.config: the document last read by load_config
    is_loaded,           \* MCPBridge.is_loaded
    load_errors,         \* MCPBridge.load_errors
    provider_instances,  \* MCPBridge.provider_instances: cached adapters
    environ,             \* os.environ: the variables set to a non-empty value
    installed,           \* the commands that resolve (absolute and existing, or on PATH)
    last,                \* the operation that returned last, with its arguments and result
    files,               \* the memory directory: the content under each name
    writer,              \* each caller of store_memory: where it is and what it holds
    store_calls,         \* the number of store_memory calls so far
    local_stores,        \* history: the records of the _store_local calls that returned,
                         \* in order, each with its index entry
    remote_requests,     \* history: the payloads of the requests the remote store answered
    evidence_files,      \* the evidence directory: the content under each file name
    current_session_id,  \* EvidenceLogger.current_session_id
    session_start_time,  \* EvidenceLogger.session_start_time
    now,                 \* datetime.now(), in whole seconds
    uuids,               \* the number of uuid4() calls of the logger so far
    evidence_writes      \* the number of _write_evidence_file calls so far

bridgeVars == <<config, is_loaded, load_errors, provider_instances, environ, installed>>
memVars == <<files, writer, store_calls, local_stores, remote_requests>>
evVars == <<evidence_files, current_session_id, session_start_time, now, uuids,
            evidence_writes>>
vars == <<config, is_loaded, load_errors, provider_instances, environ, installed, last,
          files, writer, store_calls, local_stores, remote_requests,
          evidence_files, current_session_id, session_start_time, now, uuids,
          evidence_writes>>

(***************************************************************************)
(* Documents.  A JSON object is a record whose DOMAIN is the set of keys   *)
(* present; the empty object is the empty function.  The providers object  *)
(* keeps its key order (a sequence of name/conf entries, names distinct).  *)
(* An 'enabled' value that is not a JSON boolean is kept as two keys:      *)
(* enabled holds its truth value (bool(v)), enabled_json the value itself.  *)
(***************************************************************************)
EmptyDoc == <<>>

HasKey(d, k) == k \in DOMAIN d

\* dict.get(k, default)
Get(d, k, default) == IF k \in DOMAIN d THEN d[k] ELSE default

\* a Python value: a bool, or a JSON value that is not a bool
Bool(b) == [bool |-> b]
Json(v) == [json |-> v]

\* d.get('enabled', False) as the value Python has
enabled_value(d) ==
    IF HasKey(d, "enabled_json") THEN Json(d.enabled_json)
    ELSE Bool(Get(d, "enabled", FALSE))

InSeq(x, s) == \E i \in 1..Len(s) : s[i] = x

\* providers.get(provider, {}) on the ordered providers object
ProviderConf(providers, provider) ==
    IF \E i \in 1..Len(providers) : providers[i].name = provider
    THEN providers[CHOOSE i \in 1..Len(providers) : providers[i].name = provider].conf
    ELSE EmptyDoc

\* A command value: an argv list, or a value that is not a list.
ListCmd(argv) == [kind |-> "list", argv |-> argv]
NonListCmd == [kind |-> "string", argv |-> <<>>]

\* str.upper() on the tier and role strings the callers pass
upper(s) ==
    CASE s = "green" -> "GREEN"
      [] s = "yellow" -> "YELLOW"
      [] s = "red" -> "RED"
      [] s = "Planner" -> "PLANNER"
      [] s = "Implementer" -> "IMPLEMENTER"
      [] s = "Auditor" -> "AUDITOR"
      [] s = "auditor" -> "AUDITOR"
      [] OTHER -> s

(***************************************************************************)
(* MCPBridge: the fixed tables set by __init__                             *)
(***************************************************************************)
provider_registry == {"github"}

provider_required_env ==
    [github |-> <<"GITHUB_TOKEN">>, playwright |-> <<>>, security |-> <<>>, docker |-> <<>>]

provider_actions ==
    [github |-> <<"list_issues", "get_issue", "list_prs", "get_pr", "get_checks",
                  "get_ci_status">>,
     playwright |-> <<"navigate", "click", "type_text", "take_screenshot", "get_text",
                      "wait_for_element", "execute_script", "get_page_info">>,
     security |-> <<"scan_dependencies", "scan_code", "check_secrets",
                    "vulnerability_report", "compliance_check", "get_scan_results">>,
     docker |-> <<"build_image", "run_container", "list_images", "scan_image", "get_logs",
                  "cleanup_images">>]

provider_role_rules ==
    [github |-> {"PLANNER", "IMPLEMENTER", "AUDITOR"},
     playwright |-> {"IMPLEMENTER", "AUDITOR"},
     security |-> {"PLANNER", "AUDITOR"},
     docker |-> {"IMPLEMENTER", "AUDITOR"}]

\* _is_command_available without the lookup of the command
is_command_available_any(cmd) == cmd /= ""

\* MCPBridge._is_command_available
is_command_available(cmd) == cmd /= "" /\ cmd \in installed

(***************************************************************************)
(* load_config and its validation.  An error is <<message, subject>>; the  *)
(* validators stop at the first error, as the code returns False there.    *)
(***************************************************************************)
NoError == <<>>

AllActionsValid(name, actions) ==
    \A i \in 1..Len(actions) : InSeq(actions[i], provider_actions[name])

FirstInvalidAction(name, actions) ==
    actions[CHOOSE i \in 1..Len(actions) :
               /\ ~InSeq(actions[i], provider_actions[name])
               /\ \A j \in 1..(i - 1) : InSeq(actions[j], provider_actions[name])]

validate_provider(name, pconf) ==
    IF name \notin DOMAIN provider_actions THEN <<"Unknown provider", name>>
    ELSE IF ~HasKey(pconf, "enabled") THEN <<"Provider missing 'enabled' field", name>>
    ELSE IF HasKey(pconf, "enabled_json") THEN <<"Provider 'enabled' must be boolean", name>>
    ELSE IF ~pconf.enabled THEN NoError
    ELSE IF ~HasKey(pconf, "actions") THEN <<"Provider missing 'actions' allowlist", name>>
    ELSE IF ~AllActionsValid(name, pconf.actions)
         THEN <<"Provider: invalid action", name, FirstInvalidAction(name, pconf.actions)>>
    ELSE IF ~HasKey(pconf, "command") THEN <<"Provider missing 'command' field", name>>
    ELSE IF pconf.command.kind /= "list"
         THEN <<"Provider 'command' must be an array (argv style)", name>>
    ELSE IF pconf.command.argv /= <<>> /\ ~is_command_available(pconf.command.argv[1])
         THEN <<"Provider command not found", name, pconf.command.argv[1]>>
    ELSE NoError

RECURSIVE validate_providers(_, _)
validate_providers(providers, i) ==
    IF i > Len(providers) THEN <<>>
    ELSE LET e == validate_provider(providers[i].name, providers[i].conf)
         IN IF e /= NoError THEN <<e>> ELSE validate_providers(providers, i + 1)

\* The errors _validate_config appends; it returns True iff there are none.
validate_config(doc) ==
    IF ~HasKey(doc, "enabled") THEN << <<"Missing 'enabled' field in config">> >>
    ELSE IF HasKey(doc, "enabled_json") THEN << <<"'enabled' must be a boolean">> >>
    ELSE IF ~doc.enabled THEN <<>>
    ELSE IF ~HasKey(doc, "providers") THEN << <<"Missing 'providers' section in config">> >>
    ELSE validate_providers(doc.providers, 1)

\* load_config on a file that exists and parses to doc
load_config(doc) ==
    LET errors == validate_config(doc)
    IN /\ config' = doc
       /\ load_errors' = errors
       /\ is_loaded' = (IF errors = <<>> THEN TRUE ELSE is_loaded)
       /\ last' = [op |-> "load_config", parsed |-> TRUE, ok |-> (errors = <<>>)]
       /\ UNCHANGED <<provider_instances, environ, installed, memVars, evVars>>

\* load_config on a path that does not exist, or on a file that is not JSON
load_config_unreadable(why) ==
    /\ load_errors' = << <<why>> >>
    /\ last' = [op |-> "load_config", parsed |-> FALSE, ok |-> FALSE]
    /\ UNCHANGED <<config, is_loaded, provider_instances, environ, installed, memVars, evVars>>

(***************************************************************************)
(* The permission gate                                                     *)
(***************************************************************************)
is_mcp_enabled == is_loaded /\ Get(config, "enabled", FALSE)

is_provider_enabled(provider) ==
    IF ~is_mcp_enabled THEN FALSE
    ELSE Get(ProviderConf(Get(config, "providers", <<>>), provider), "enabled", FALSE)

is_action_allowed(provider, action) ==
    IF ~is_provider_enabled(provider) THEN FALSE
    ELSE InSeq(action,
               Get(ProviderConf(Get(config, "providers", <<>>), provider), "actions", <<>>))

\* the values of the checks map as Python has them: is_mcp_enabled and
\* is_provider_enabled hand on the 'enabled' value of the configuration
check_values(provider, checks) ==
    [mcp_enabled |-> IF ~is_loaded THEN Bool(FALSE) ELSE enabled_value(config),
     provider_enabled |->
        IF ~is_mcp_enabled THEN Bool(FALSE)
        ELSE enabled_value(ProviderConf(Get(config, "providers", <<>>), provider)),
     action_allowed |-> Bool(checks.action_allowed),
     risk_tier_allowed |-> Bool(checks.risk_tier_allowed),
     role_allowed |-> Bool(checks.role_allowed)]

\* check_risk_tier comparing the tier as passed, and refusing only RED
check_risk_tier_case_sensitive(risk_tier) == risk_tier /= "RED"

\* check_risk_tier with RED in the list of the tiers that pass
check_risk_tier_red_listed(risk_tier) == upper(risk_tier) \in {"GREEN", "YELLOW", "RED"}

check_risk_tier(risk_tier) ==
    LET tier == upper(risk_tier)
    IN IF tier = "RED" THEN FALSE ELSE tier \in {"GREEN", "YELLOW"}

check_role(provider, action, role) ==
    upper(role) \in Get(provider_role_rules, provider, {})

\* check_mcp_permissions testing the risk tier before the allowlist
check_mcp_permissions_tier_first(provider, action, risk_tier, role) ==
    LET checks == [mcp_enabled |-> is_mcp_enabled,
                   provider_enabled |-> is_provider_enabled(provider),
                   action_allowed |-> is_action_allowed(provider, action),
                   risk_tier_allowed |-> check_risk_tier(risk_tier),
                   role_allowed |-> check_role(provider, action, role)]
    IN IF ~checks.mcp_enabled
       THEN [allowed |-> FALSE, reason |-> "MCP integration not enabled", checks |-> checks,
             check_values |-> check_values(provider, checks)]
       ELSE IF ~checks.provider_enabled
       THEN [allowed |-> FALSE, reason |-> "Provider not enabled", checks |-> checks,
             check_values |-> check_values(provider, checks)]
       ELSE IF ~checks.risk_tier_allowed
       THEN [allowed |-> FALSE, reason |-> "Risk tier not allowed for MCP operations",
             checks |-> checks,
             check_values |-> check_values(provider, checks)]
       ELSE IF ~checks.action_allowed
       THEN [allowed |-> FALSE, reason |-> "Action not allowlisted for provider",
             checks |-> checks,
             check_values |-> check_values(provider, checks)]
       ELSE IF ~checks.role_allowed
       THEN [allowed |-> FALSE, reason |-> "Role not allowed", checks |-> checks,
             check_values |-> check_values(provider, checks)]
       ELSE [allowed |-> TRUE, reason |-> "All permission checks passed", checks |-> checks,
             check_values |-> check_values(provider, checks)]

check_mcp_permissions(provider, action, risk_tier, role) ==
    LET checks == [mcp_enabled |-> is_mcp_enabled,
                   provider_enabled |-> is_provider_enabled(provider),
                   action_allowed |-> is_action_allowed(provider, action),
                   risk_tier_allowed |-> check_risk_tier(risk_tier),
                   role_allowed |-> check_role(provider, action, role)]
    IN IF ~checks.mcp_enabled
       THEN [allowed |-> FALSE, reason |-> "MCP integration not enabled", checks |-> checks,
             check_values |-> check_values(provider, checks)]
       ELSE IF ~checks.provider_enabled
       THEN [allowed |-> FALSE, reason |-> "Provider not enabled", checks |-> checks,
             check_values |-> check_values(provider, checks)]
       ELSE IF ~checks.action_allowed
       THEN [allowed |-> FALSE, reason |-> "Action not allowlisted for provider",
             checks |-> checks,
             check_values |-> check_values(provider, checks)]
       ELSE IF ~checks.risk_tier_allowed
       THEN [allowed |-> FALSE, reason |-> "Risk tier not allowed for MCP operations",
             checks |-> checks,
             check_values |-> check_values(provider, checks)]
       ELSE IF ~checks.role_allowed
       THEN [allowed |-> FALSE, reason |-> "Role not allowed", checks |-> checks,
             check_values |-> check_values(provider, checks)]
       ELSE [allowed |-> TRUE, reason |-> "All permission checks passed", checks |-> checks,
             check_values |-> check_values(provider, checks)]

(***************************************************************************)
(* The provider adapters.  GitHubMCPProvider is the one adapter in         *)
(* provider_registry.  An instance keeps the command and the server mode   *)
(* of the provider object it was built from (MCP_GITHUB_SERVER and         *)
(* MCP_CONTEXT7_SERVER unset).  The external process the adapter starts    *)
(* answers as it likes: procOk is whether run_stdio_command reported ok.   *)
(* A call returns {ok, data, error, meta} or raises; spawned: the external *)
(* process was started.                                                    *)
(***************************************************************************)
READ_ONLY_ACTIONS ==
    {"list_issues", "get_issue", "list_prs", "get_pr", "get_checks", "get_ci_status"}

\* Context7MCPProvider.READ_ONLY_ACTIONS and PlaywrightMCPProvider.ALLOWED_ACTIONS
CONTEXT7_READ_ONLY_ACTIONS == {"search", "get", "list"}
ALLOWED_ACTIONS ==
    {"navigate", "click", "type_text", "take_screenshot", "get_text", "wait_for_element",
     "execute_script", "get_page_info"}

\* str.lower() on the server modes of the configurations
lower_mode(mode) == IF mode = "NOOP" THEN "noop" ELSE mode

\* (action or "").strip() on the actions the callers pass
normalize_action(action) ==
    CASE action = " list_issues " -> "list_issues"
      [] action = " search " -> "search"
      [] action = " navigate " -> "navigate"
      [] action = " " -> ""
      [] OTHER -> action

\* __init__ of the three adapters
GitHubMCPProvider(pconf) ==
    [command |-> IF HasKey(pconf, "command") /\ pconf.command.kind = "list"
                 THEN pconf.command.argv ELSE <<>>,
     server_mode |-> lower_mode(Get(pconf, "serverMode", "stdio"))]

AdapterResult(ok, error, meta, spawned) ==
    [raised |-> "none", ok |-> ok, data |-> IF ok THEN "data" ELSE "None",
     error |-> error, meta |-> meta, spawned |-> spawned]

\* the exception leaves call(): there is no result
AdapterRaised(exception) ==
    [raised |-> exception, ok |-> FALSE, data |-> "None", error |-> exception,
     meta |-> EmptyDoc, spawned |-> FALSE]

\* _base_meta of the adapters, without command, repository and params_keys
base_meta(provider, inst, action, server_available) ==
    [provider |-> provider, action |-> action, server_mode |-> inst.server_mode,
     server_available |-> server_available, command_configured |-> inst.command /= <<>>]

\* the adapter's path from the command lookup on, the same in the three adapters
run_adapter_command(provider, inst, action, procOk, not_found) ==
    IF inst.command[1] \notin installed
    THEN AdapterResult(FALSE, not_found, base_meta(provider, inst, action, TRUE), FALSE)
    ELSE AdapterResult(procOk, IF procOk THEN "None" ELSE "MCP command failed",
                       base_meta(provider, inst, action, TRUE), TRUE)

\* GitHubMCPProvider.call; _base_meta has no parameter command_available, so the call
\* that passes it raises TypeError
github_call(inst, action, procOk) ==
    LET normalized_action == normalize_action(action)
    IN IF normalized_action \notin READ_ONLY_ACTIONS
       THEN AdapterResult(FALSE, "Action not supported",
                          base_meta("github", inst, normalized_action, TRUE), FALSE)
       ELSE IF inst.server_mode = "noop"
       THEN AdapterResult(FALSE, "GitHub MCP noop mode: server not available",
                          base_meta("github", inst, normalized_action, FALSE), FALSE)
       ELSE IF inst.command = <<>> THEN AdapterRaised("TypeError")
       ELSE IF "GITHUB_TOKEN" \notin environ
       THEN AdapterResult(FALSE, "GITHUB_TOKEN not set",
                          base_meta("github", inst, normalized_action, TRUE), FALSE)
       ELSE run_adapter_command("github", inst, normalized_action, procOk,
                                "GitHub MCP command not found")

\* Context7MCPProvider.call; its _base_meta has no parameter command_available either
context7_call(inst, action, procOk) ==
    LET normalized_action == normalize_action(action)
    IN IF normalized_action \notin CONTEXT7_READ_ONLY_ACTIONS
       THEN AdapterResult(FALSE, "Action not supported",
                          base_meta("context7", inst, normalized_action, TRUE), FALSE)
       ELSE IF inst.server_mode = "noop"
       THEN AdapterResult(FALSE, "Context7 MCP noop mode: server not available",
                          base_meta("context7", inst, normalized_action, FALSE), FALSE)
       ELSE IF inst.command = <<>> THEN AdapterRaised("TypeError")
       ELSE run_adapter_command("context7", inst, normalized_action, procOk,
                                "Context7 MCP command not found")

\* PlaywrightMCPProvider.call
playwright_call(inst, action, procOk) ==
    LET normalized_action == normalize_action(action)
    IN IF normalized_action \notin ALLOWED_ACTIONS
       THEN AdapterResult(FALSE, "Action not supported",
                          base_meta("playwright", inst, normalized_action, TRUE), FALSE)
       ELSE IF inst.server_mode = "noop"
       THEN AdapterResult(FALSE, "Playwright MCP noop mode: server not available",
                          base_meta("playwright", inst, normalized_action, FALSE), FALSE)
       ELSE IF inst.command = <<>>
       THEN AdapterResult(FALSE, "No Playwright MCP command configured",
                          base_meta("playwright", inst, normalized_action, FALSE), FALSE)
       ELSE run_adapter_command("playwright", inst, normalized_action, procOk,
                                "Playwright MCP command not found")

\* MCPBridge._get_provider_instance: the cache after the lookup
get_provider_instance(provider) ==
    IF HasKey(provider_instances, provider) THEN provider_instances
    ELSE IF provider \notin provider_registry THEN provider_instances
    ELSE [p \in DOMAIN provider_instances \cup {provider} |->
             IF p = provider
             THEN GitHubMCPProvider(ProviderConf(Get(config, "providers", <<>>), provider))
             ELSE provider_instances[p]]

(***************************************************************************)
(* route_call.  The result keeps ok and error, the checks of meta, the     *)
(* missing_env list (joined into the error text and kept in meta), and     *)
(* adapter_calls: how many times the call invoked an adapter's call().     *)
(* params are only handed on to the adapter.  raised: the exception of the *)
(* adapter, which route_call does not catch.                               *)
(***************************************************************************)
Denied(error, permission, missing_env) ==
    [ok |-> FALSE, error |-> error, checks |-> permission.checks,
     permission |-> permission, missing_env |-> missing_env, adapter_calls |-> 0,
     spawned |-> FALSE, instances |-> provider_instances, raised |-> "none"]

\* route_call without the check of the required environment variables
route_call_result_no_env_check(provider, action, risk_tier, role, procOk) ==
    LET permission == check_mcp_permissions(provider, action, risk_tier, role)
        provider_config == ProviderConf(Get(config, "providers", <<>>), provider)
        command == IF HasKey(provider_config, "command")
                      /\ provider_config.command.kind = "list"
                   THEN provider_config.command.argv ELSE <<>>
        instances == get_provider_instance(provider)
    IN IF ~permission.allowed THEN Denied(permission.reason, permission, <<>>)
       ELSE IF command = <<>>
       THEN Denied("No command configured for provider", permission, <<>>)
       ELSE IF ~is_command_available(command[1])
       THEN Denied("Provider command not found", permission, <<>>)
       ELSE IF ~HasKey(instances, provider)
       THEN Denied("Provider not available", permission, <<>>)
       ELSE LET result == github_call(instances[provider], action, procOk)
            IN [ok |-> result.ok, error |-> result.error, checks |-> permission.checks,
                permission |-> permission, missing_env |-> <<>>, adapter_calls |-> 1,
                spawned |-> result.spawned, instances |-> instances,
                raised |-> result.raised]

route_call_result(provider, action, risk_tier, role, procOk) ==
    LET permission == check_mcp_permissions(provider, action, risk_tier, role)
        provider_config == ProviderConf(Get(config, "providers", <<>>), provider)
        command == IF HasKey(provider_config, "command")
                      /\ provider_config.command.kind = "list"
                   THEN provider_config.command.argv ELSE <<>>
        required_env == Get(provider_required_env, provider, <<>>)
        missing_env == SelectSeq(required_env, LAMBDA e : e \notin environ)
        instances == get_provider_instance(provider)
    IN IF ~permission.allowed THEN Denied(permission.reason, permission, <<>>)
       ELSE IF command = <<>>
       THEN Denied("No command configured for provider", permission, <<>>)
       ELSE IF ~is_command_available(command[1])
       THEN Denied("Provider command not found", permission, <<>>)
       ELSE IF missing_env /= <<>>
       THEN Denied("Missing required environment variables", permission, missing_env)
       ELSE IF ~HasKey(instances, provider)
       THEN Denied("Provider not available", permission, <<>>)
       ELSE LET result == github_call(instances[provider], action, procOk)
            IN [ok |-> result.ok, error |-> result.error, checks |-> permission.checks,
                permission |-> permission, missing_env |-> <<>>, adapter_calls |-> 1,
                spawned |-> result.spawned, instances |-> instances,
                raised |-> result.raised]

route_call(provider, action, risk_tier, role, procOk) ==
    \E r \in {route_call_result(provider, action, risk_tier, role, procOk)} :
       /\ last' = [op |-> "route_call", provider |-> provider, action |-> action,
                   risk_tier |-> risk_tier, role |-> role,
                   permission |-> r.permission,
                   ok |-> r.ok, error |-> r.error, checks |-> r.checks,
                   missing_env |-> r.missing_env, adapter_calls |-> r.adapter_calls,
                   spawned |-> r.spawned, raised |-> r.raised]
       /\ provider_instances' = r.instances
       /\ UNCHANGED <<config, is_loaded, load_errors, environ, installed, memVars, evVars>>

(***************************************************************************)
(* The inputs of the broker                                                *)
(***************************************************************************)
\* commands that may or may not resolve; "ghost-mcp" never does
Commands == {"npx"}

EnvNames == {"GITHUB_TOKEN"}

Entry(name, conf) == [name |-> name, conf |-> conf]

GitHubOk ==
    [enabled |-> TRUE, actions |-> <<"get_issue", "list_issues">>,
     command |-> ListCmd(<<"npx">>)]

PlaywrightOk ==
    [enabled |-> TRUE, actions |-> <<"navigate">>, command |-> ListCmd(<<"npx">>)]

\* a documentation search provider with one action
DocsSearchOk ==
    [enabled |-> TRUE, actions |-> <<"search">>, command |-> ListCmd(<<"npx">>)]

GitHubConfs ==
    { GitHubOk,
      [enabled |-> TRUE, actions |-> <<"list_issues", "delete_repo">>,
       command |-> ListCmd(<<"npx">>)],
      [enabled |-> TRUE, actions |-> <<"list_issues">>, command |-> ListCmd(<<>>)],
      [enabled |-> TRUE, actions |-> <<"list_issues">>, command |-> ListCmd(<<"ghost-mcp">>)],
      [enabled |-> TRUE, actions |-> <<"list_issues">>, command |-> NonListCmd],
      [enabled |-> TRUE, actions |-> <<"list_issues">>],
      [enabled |-> TRUE, actions |-> <<>>, command |-> ListCmd(<<"npx">>)],
      [enabled |-> TRUE],
      [enabled |-> FALSE, actions |-> <<"delete_repo">>],
      \* "enabled": 1
      [enabled |-> TRUE, enabled_json |-> "1", actions |-> <<"list_issues">>,
       command |-> ListCmd(<<"npx">>)],
      EmptyDoc }

ProviderLists ==
    {<<Entry("github", g)>> : g \in GitHubConfs}
    \cup { <<Entry("playwright", PlaywrightOk)>>,
           <<Entry("jira", GitHubOk)>>,
           <<Entry("docs-search", DocsSearchOk)>>,
           <<Entry("github", GitHubOk), Entry("playwright", PlaywrightOk)>>,
           <<Entry("playwright", PlaywrightOk), Entry("github", GitHubOk)>>,
           <<Entry("github", [enabled |-> TRUE, actions |-> <<>>,
                              command |-> ListCmd(<<"npx">>)]),
             Entry("playwright", PlaywrightOk)>>,
           <<Entry("github", [enabled |-> TRUE, actions |-> <<"delete_repo">>]),
             Entry("jira", GitHubOk)>> }

Configs ==
    {EmptyDoc, [enabled |-> FALSE], [enabled |-> TRUE]}
    \* "enabled": "yes"
    \cup {[enabled |-> TRUE, enabled_json |-> "yes",
           providers |-> <<Entry("github", GitHubOk)>>]}
    \cup {[enabled |-> TRUE, providers |-> ps] : ps \in ProviderLists}

\* the (provider, action) pairs, tiers and roles the callers pass
Targets ==
    { <<"github", "list_issues">>, <<"github", "delete_repo">>,
      <<"playwright", "navigate">>, <<"jira", "list_issues">> }
RiskTiers == {"GREEN", "yellow", "RED", "red", "BLUE"}
Roles == {"Planner", "auditor"}

(***************************************************************************)
(* PolicyEngine and MCPSelector: the fixed keyword tables and the tasks    *)
(***************************************************************************)
\* PolicyEngine.always_red_categories
always_red_categories ==
    <<
      \* 'auth/permissions/rbac'
      <<"a", "u", "t", "h", "/", "p", "e", "r", "m", "i", "s", "s", "i", "o", "n", "s", "/",
        "r", "b", "a", "c">>,
      \* 'payments/billing'
      <<"p", "a", "y", "m", "e", "n", "t", "s", "/", "b", "i", "l", "l", "i", "n", "g">>,
      \* 'secrets/env/prod credentials'
      <<"s", "e", "c", "r", "e", "t", "s", "/", "e", "n", "v", "/", "p", "r", "o", "d", " ",
        "c", "r", "e", "d", "e", "n", "t", "i", "a", "l", "s">>,
      \* 'destructive DB migrations (drop/alter)'
      <<"d", "e", "s", "t", "r", "u", "c", "t", "i", "v", "e", " ", "D", "B", " ", "m", "i",
        "g", "r", "a", "t", "i", "o", "n", "s", " ", "(", "d", "r", "o", "p", "/", "a", "l", "t",
        "e", "r", ")">>,
      \* 'infra/terraform/k8s'
      <<"i", "n", "f", "r", "a", "/", "t", "e", "r", "r", "a", "f", "o", "r", "m", "/", "k",
        "8", "s">>,
      \* 'logging/audit tampering'
      <<"l", "o", "g", "g", "i", "n", "g", "/", "a", "u", "d", "i", "t", " ", "t", "a", "m",
        "p", "e", "r", "i", "n", "g">>,
      \* 'data export / PII access'
      <<"d", "a", "t", "a", " ", "e", "x", "p", "o", "r", "t", " ", "/", " ", "P", "I", "I",
        " ", "a", "c", "c", "e", "s", "s">>
    >>

\* PolicyEngine.red_keywords
red_keywords ==
    <<
      \* 'auth'
      <<"a", "u", "t", "h">>,
      \* 'authentication'
      <<"a", "u", "t", "h", "e", "n", "t", "i", "c", "a", "t", "i", "o", "n">>,
      \* 'authorization'
      <<"a", "u", "t", "h", "o", "r", "i", "z", "a", "t", "i", "o", "n">>,
      \* 'permissions'
      <<"p", "e", "r", "m", "i", "s", "s", "i", "o", "n", "s">>,
      \* 'rbac'
      <<"r", "b", "a", "c">>,
      \* 'payment'
      <<"p", "a", "y", "m", "e", "n", "t">>,
      \* 'billing'
      <<"b", "i", "l", "l", "i", "n", "g">>,
      \* 'stripe'
      <<"s", "t", "r", "i", "p", "e">>,
      \* 'charge'
      <<"c", "h", "a", "r", "g", "e">>,
      \* 'invoice'
      <<"i", "n", "v", "o", "i", "c", "e">>,
      \* 'secret'
      <<"s", "e", "c", "r", "e", "t">>,
      \* 'credential'
      <<"c", "r", "e", "d", "e", "n", "t", "i", "a", "l">>,
      \* 'password'
      <<"p", "a", "s", "s", "w", "o", "r", "d">>,
      \* 'token'
      <<"t", "o", "k", "e", "n">>,
      \* 'key'
      <<"k", "e", "y">>,
      \* 'env'
      <<"e", "n", "v">>,
      \* 'database'
      <<"d", "a", "t", "a", "b", "a", "s", "e">>,
      \* 'migration'
      <<"m", "i", "g", "r", "a", "t", "i", "o", "n">>,
      \* 'drop'
      <<"d", "r", "o", "p">>,
      \* 'alter'
      <<"a", "l", "t", "e", "r">>,
      \* 'delete'
      <<"d", "e", "l", "e", "t", "e">>,
      \* 'destroy'
      <<"d", "e", "s", "t", "r", "o", "y">>,
      \* 'infra'
      <<"i", "n", "f", "r", "a">>,
      \* 'terraform'
      <<"t", "e", "r", "r", "a", "f", "o", "r", "m">>,
      \* 'kubernetes'
      <<"k", "u", "b", "e", "r", "n", "e", "t", "e", "s">>,
      \* 'k8s'
      <<"k", "8", "s">>,
      \* 'infrastructure'
      <<"i", "n", "f", "r", "a", "s", "t", "r", "u", "c", "t", "u", "r", "e">>,
      \* 'logging'
      <<"l", "o", "g", "g", "i", "n", "g">>,
      \* 'audit'
      <<"a", "u", "d", "i", "t">>,
      \* 'tamper'
      <<"t", "a", "m", "p", "e", "r">>,
      \* 'PII'
      <<"P", "I", "I">>,
      \* 'personal'
      <<"p", "e", "r", "s", "o", "n", "a", "l">>,
      \* 'export'
      <<"e", "x", "p", "o", "r", "t">>,
      \* 'data'
      <<"d", "a", "t", "a">>
    >>

\* PolicyEngine.yellow_keywords
yellow_keywords ==
    <<
      \* 'api'
      <<"a", "p", "i">>,
      \* 'endpoint'
      <<"e", "n", "d", "p", "o", "i", "n", "t">>,
      \* 'interface'
      <<"i", "n", "t", "e", "r", "f", "a", "c", "e">>,
      \* 'contract'
      <<"c", "o", "n", "t", "r", "a", "c", "t">>,
      \* 'database'
      <<"d", "a", "t", "a", "b", "a", "s", "e">>,
      \* 'schema'
      <<"s", "c", "h", "e", "m", "a">>,
      \* 'table'
      <<"t", "a", "b", "l", "e">>,
      \* 'column'
      <<"c", "o", "l", "u", "m", "n">>,
      \* 'security'
      <<"s", "e", "c", "u", "r", "i", "t", "y">>,
      \* 'encrypt'
      <<"e", "n", "c", "r", "y", "p", "t">>,
      \* 'decrypt'
      <<"d", "e", "c", "r", "y", "p", "t">>,
      \* 'hash'
      <<"h", "a", "s", "h">>,
      \* 'deploy'
      <<"d", "e", "p", "l", "o", "y">>,
      \* 'release'
      <<"r", "e", "l", "e", "a", "s", "e">>,
      \* 'production'
      <<"p", "r", "o", "d", "u", "c", "t", "i", "o", "n">>,
      \* 'config'
      <<"c", "o", "n", "f", "i", "g">>,
      \* 'configuration'
      <<"c", "o", "n", "f", "i", "g", "u", "r", "a", "t", "i", "o", "n">>,
      \* 'setting'
      <<"s", "e", "t", "t", "i", "n", "g">>,
      \* 'user'
      <<"u", "s", "e", "r">>,
      \* 'profile'
      <<"p", "r", "o", "f", "i", "l", "e">>,
      \* 'account'
      <<"a", "c", "c", "o", "u", "n", "t">>
    >>

\* MCPSelector.PROVIDER_KEYWORDS, in the order of the dict
PROVIDER_NAMES ==
    <<"github", "context7", "filesystem", "linear", "postgres", "sentry", "playwright", "security", "docker">>

PROVIDER_KEYWORDS ==
    [
     github |-> <<
          \* 'github'
          <<"g", "i", "t", "h", "u", "b">>,
          \* 'issue'
          <<"i", "s", "s", "u", "e">>,
          \* 'pr'
          <<"p", "r">>,
          \* 'pull request'
          <<"p", "u", "l", "l", " ", "r", "e", "q", "u", "e", "s", "t">>,
          \* 'repo'
          <<"r", "e", "p", "o">>,
          \* 'repository'
          <<"r", "e", "p", "o", "s", "i", "t", "o", "r", "y">>,
          \* 'branch'
          <<"b", "r", "a", "n", "c", "h">>,
          \* 'commit'
          <<"c", "o", "m", "m", "i", "t">>,
          \* 'merge'
          <<"m", "e", "r", "g", "e">>,
          \* 'collaborator'
          <<"c", "o", "l", "l", "a", "b", "o", "r", "a", "t", "o", "r">>,
          \* 'code review'
          <<"c", "o", "d", "e", " ", "r", "e", "v", "i", "e", "w">>
       >>,
     context7 |-> <<
          \* 'context'
          <<"c", "o", "n", "t", "e", "x", "t">>,
          \* 'context7'
          <<"c", "o", "n", "t", "e", "x", "t", "7">>,
          \* 'docs'
          <<"d", "o", "c", "s">>,
          \* 'documentation'
          <<"d", "o", "c", "u", "m", "e", "n", "t", "a", "t", "i", "o", "n">>,
          \* 'library'
          <<"l", "i", "b", "r", "a", "r", "y">>,
          \* 'lookup'
          <<"l", "o", "o", "k", "u", "p">>,
          \* 'reference'
          <<"r", "e", "f", "e", "r", "e", "n", "c", "e">>,
          \* 'semantic search'
          <<"s", "e", "m", "a", "n", "t", "i", "c", " ", "s", "e", "a", "r", "c", "h">>
       >>,
     filesystem |-> <<
          \* 'file'
          <<"f", "i", "l", "e">>,
          \* 'directory'
          <<"d", "i", "r", "e", "c", "t", "o", "r", "y">>,
          \* 'folder'
          <<"f", "o", "l", "d", "e", "r">>,
          \* 'read'
          <<"r", "e", "a", "d">>,
          \* 'write'
          <<"w", "r", "i", "t", "e">>,
          \* 'path'
          <<"p", "a", "t", "h">>,
          \* 'ls'
          <<"l", "s">>,
          \* 'cat'
          <<"c", "a", "t">>,
          \* 'fs'
          <<"f", "s">>
       >>,
     linear |-> <<
          \* 'linear'
          <<"l", "i", "n", "e", "a", "r">>,
          \* 'ticket'
          <<"t", "i", "c", "k", "e", "t">>,
          \* 'task'
          <<"t", "a", "s", "k">>,
          \* 'project management'
          <<"p", "r", "o", "j", "e", "c", "t", " ", "m", "a", "n", "a", "g", "e", "m", "e",
            "n", "t">>,
          \* 'backlog'
          <<"b", "a", "c", "k", "l", "o", "g">>
       >>,
     postgres |-> <<
          \* 'postgres'
          <<"p", "o", "s", "t", "g", "r", "e", "s">>,
          \* 'database'
          <<"d", "a", "t", "a", "b", "a", "s", "e">>,
          \* 'db'
          <<"d", "b">>,
          \* 'sql'
          <<"s", "q", "l">>,
          \* 'query'
          <<"q", "u", "e", "r", "y">>,
          \* 'schema'
          <<"s", "c", "h", "e", "m", "a">>,
          \* 'table'
          <<"t", "a", "b", "l", "e">>
       >>,
     sentry |-> <<
          \* 'sentry'
          <<"s", "e", "n", "t", "r", "y">>,
          \* 'error'
          <<"e", "r", "r", "o", "r">>,
          \* 'exception'
          <<"e", "x", "c", "e", "p", "t", "i", "o", "n">>,
          \* 'bug'
          <<"b", "u", "g">>,
          \* 'crash'
          <<"c", "r", "a", "s", "h">>,
          \* 'log'
          <<"l", "o", "g">>,
          \* 'monitor'
          <<"m", "o", "n", "i", "t", "o", "r">>
       >>,
     playwright |-> <<
          \* 'playwright'
          <<"p", "l", "a", "y", "w", "r", "i", "g", "h", "t">>,
          \* 'e2e'
          <<"e", "2", "e">>,
          \* 'browser'
          <<"b", "r", "o", "w", "s", "e", "r">>,
          \* 'ui'
          <<"u", "i">>,
          \* 'screenshot'
          <<"s", "c", "r", "e", "e", "n", "s", "h", "o", "t">>,
          \* 'web'
          <<"w", "e", "b">>,
          \* 'page'
          <<"p", "a", "g", "e">>,
          \* 'click'
          <<"c", "l", "i", "c", "k">>,
          \* 'type'
          <<"t", "y", "p", "e">>,
          \* 'automation'
          <<"a", "u", "t", "o", "m", "a", "t", "i", "o", "n">>,
          \* 'test'
          <<"t", "e", "s", "t">>
       >>,
     security |-> <<
          \* 'security'
          <<"s", "e", "c", "u", "r", "i", "t", "y">>,
          \* 'scan'
          <<"s", "c", "a", "n">>,
          \* 'vuln'
          <<"v", "u", "l", "n">>,
          \* 'vulnerability'
          <<"v", "u", "l", "n", "e", "r", "a", "b", "i", "l", "i", "t", "y">>,
          \* 'deps'
          <<"d", "e", "p", "s">>,
          \* 'dependencies'
          <<"d", "e", "p", "e", "n", "d", "e", "n", "c", "i", "e", "s">>,
          \* 'secrets'
          <<"s", "e", "c", "r", "e", "t", "s">>,
          \* 'audit'
          <<"a", "u", "d", "i", "t">>,
          \* 'compliance'
          <<"c", "o", "m", "p", "l", "i", "a", "n", "c", "e">>,
          \* 'check'
          <<"c", "h", "e", "c", "k">>
       >>,
     docker |-> <<
          \* 'docker'
          <<"d", "o", "c", "k", "e", "r">>,
          \* 'container'
          <<"c", "o", "n", "t", "a", "i", "n", "e", "r">>,
          \* 'image'
          <<"i", "m", "a", "g", "e">>,
          \* 'build'
          <<"b", "u", "i", "l", "d">>,
          \* 'run'
          <<"r", "u", "n">>,
          \* 'registry'
          <<"r", "e", "g", "i", "s", "t", "r", "y">>,
          \* 'cleanup'
          <<"c", "l", "e", "a", "n", "u", "p">>,
          \* 'logs'
          <<"l", "o", "g", "s">>,
          \* 'scan'
          <<"s", "c", "a", "n">>
       >>
    ]

\* the provider names _check_local_tools_availability looks for, in the order of its dict
LOCAL_TOOL_PROVIDERS ==
    <<<<"g", "i", "t", "h", "u", "b">>, <<"c", "o", "n", "t", "e", "x", "t", "7">>, <<"p", "l", "a", "y", "w", "r", "i", "g", "h", "t">>, <<"s", "e", "c", "u", "r", "i", "t", "y">>, <<"d", "o", "c", "k", "e", "r">>>>

\* MCPSelector.ACTION_PARAM_TEMPLATES (the JSON text of each template)
ACTION_PARAM_TEMPLATES ==
    [list_issues |-> "{\"limit\":5}",
     get_issue |-> "{\"issue_number\":1}",
     list_prs |-> "{\"limit\":5}",
     get_pr |-> "{\"pr_number\":1}",
     get_checks |-> "{\"ref\":\"main\"}",
     get_ci_status |-> "{\"ref\":\"main\"}",
     search |-> "{\"query\":\"test search\"}",
     get |-> "{\"id\":\"test-id\"}",
     list |-> "{}",
     navigate |-> "{\"url\":\"https://example.com\"}",
     click |-> "{\"selector\":\"button\"}",
     type_text |-> "{\"selector\":\"input\",\"text\":\"example\"}",
     take_screenshot |-> "{\"selector\":\"body\",\"path\":\"screenshot.png\"}",
     get_text |-> "{\"selector\":\"h1\"}",
     wait_for_element |-> "{\"selector\":\"h1\",\"timeout\":5000}",
     execute_script |-> "{\"script\":\"return document.title\"}",
     get_page_info |-> "{}",
     scan_dependencies |-> "{\"path\":\".\"}",
     scan_code |-> "{\"path\":\".\"}",
     check_secrets |-> "{\"path\":\".\"}",
     vulnerability_report |-> "{\"path\":\".\"}",
     compliance_check |-> "{\"path\":\".\"}",
     get_scan_results |-> "{\"scan_id\":\"latest\"}",
     build_image |-> "{\"dockerfile\":\"Dockerfile\",\"tag\":\"myapp:latest\"}",
     run_container |-> "{\"image\":\"nginx:latest\",\"ports\":{\"80\":\"80\"}}",
     list_images |-> "{}",
     scan_image |-> "{\"image\":\"nginx:latest\"}",
     get_logs |-> "{\"container_id\":\"container_id\"}",
     cleanup_images |-> "{\"older_than_days\":30}"]

\* 'list github issues'
TaskListIssues ==
    <<"l", "i", "s", "t", " ", "g", "i", "t", "h", "u", "b", " ", "i", "s", "s", "u", "e", "s">>

\* 'Screenshot the GitHub page'
TaskScreenshot ==
    <<"S", "c", "r", "e", "e", "n", "s", "h", "o", "t", " ", "t", "h", "e", " ", "G", "i", "t",
    "H", "u", "b", " ", "p", "a", "g", "e">>

\* 'hello world'
TaskHello ==
    <<"h", "e", "l", "l", "o", " ", "w", "o", "r", "l", "d">>

\* 'rotate database credentials'
TaskRotate ==
    <<"r", "o", "t", "a", "t", "e", " ", "d", "a", "t", "a", "b", "a", "s", "e", " ", "c", "r",
    "e", "d", "e", "n", "t", "i", "a", "l", "s">>

\* 'update user profile'
TaskProfile ==
    <<"u", "p", "d", "a", "t", "e", " ", "u", "s", "e", "r", " ", "p", "r", "o", "f", "i", "l",
    "e">>

\* 'Show PII'
TaskPII ==
    <<"S", "h", "o", "w", " ", "P", "I", "I">>

\* 'search documentation for X'
TaskDocs ==
    <<"s", "e", "a", "r", "c", "h", " ", "d", "o", "c", "u", "m", "e", "n", "t", "a", "t", "i",
    "o", "n", " ", "f", "o", "r", " ", "X">>

\* ''
TaskEmpty ==
    <<>>

\* 'review billing code'
TaskBilling ==
    <<"r", "e", "v", "i", "e", "w", " ", "b", "i", "l", "l", "i", "n", "g", " ", "c", "o", "d",
    "e">>

Tasks ==
    {TaskListIssues, TaskScreenshot, TaskHello, TaskRotate, TaskProfile, TaskPII, TaskDocs,
     TaskEmpty, TaskBilling}

\* str.lower() on one character
lower_char(c) ==
    CASE c = "A" -> "a" [] c = "B" -> "b" [] c = "C" -> "c" [] c = "D" -> "d"
      [] c = "E" -> "e" [] c = "F" -> "f" [] c = "G" -> "g" [] c = "H" -> "h"
      [] c = "I" -> "i" [] c = "J" -> "j" [] c = "K" -> "k" [] c = "L" -> "l"
      [] c = "M" -> "m" [] c = "N" -> "n" [] c = "O" -> "o" [] c = "P" -> "p"
      [] c = "Q" -> "q" [] c = "R" -> "r" [] c = "S" -> "s" [] c = "T" -> "t"
      [] c = "U" -> "u" [] c = "V" -> "v" [] c = "W" -> "w" [] c = "X" -> "x"
      [] c = "Y" -> "y" [] c = "Z" -> "z"
      [] OTHER -> c

(***************************************************************************)
(* Text: a str is a sequence of one-character strings                      *)
(***************************************************************************)
lower(s) == [i \in 1..Len(s) |-> lower_char(s[i])]

\* kw in text
Contains(kw, text) ==
    \E i \in 0..(Len(text) - Len(kw)) : SubSeq(text, i + 1, i + Len(kw)) = kw

\* str.split(sep) for a one-character separator
RECURSIVE split(_, _)
split(s, sep) ==
    IF ~InSeq(sep, s) THEN <<s>>
    ELSE LET i == CHOOSE k \in 1..Len(s) : s[k] = sep /\ \A j \in 1..(k - 1) : s[j] /= sep
         IN <<SubSeq(s, 1, i - 1)>> \o split(SubSeq(s, i + 1, Len(s)), sep)

\* the first index at which a loop over a list matches
FirstHit(hits) == CHOOSE i \in 1..Len(hits) : hits[i] /\ \A j \in 1..(i - 1) : ~hits[j]

(***************************************************************************)
(* PolicyEngine.classify_risk: the tier, and the reason it leaves in       *)
(* _last_classification_reason                                             *)
(***************************************************************************)
classify_risk(task) ==
    LET task_lower == lower(task)
        CategoryHit(i) ==
            LET category_keywords == split(lower(always_red_categories[i]), "/")
            IN \E k \in 1..Len(category_keywords) : Contains(category_keywords[k], task_lower)
        RedHit(i) == Contains(red_keywords[i], task_lower)
        YellowHit(i) == Contains(yellow_keywords[i], task_lower)
    IN IF \E i \in 1..Len(always_red_categories) : CategoryHit(i)
       THEN [tier |-> "RED",
             reason |-> <<"Always Red category",
                          always_red_categories[
                              FirstHit([i \in 1..Len(always_red_categories) |->
                                           CategoryHit(i)])]>>]
       ELSE IF \E i \in 1..Len(red_keywords) : RedHit(i)
       THEN [tier |-> "RED",
             reason |-> <<"Red-tier keyword detected",
                          red_keywords[FirstHit([i \in 1..Len(red_keywords) |-> RedHit(i)])]>>]
       ELSE IF \E i \in 1..Len(yellow_keywords) : YellowHit(i)
       THEN [tier |-> "YELLOW",
             reason |-> <<"Yellow-tier keyword detected",
                          yellow_keywords[
                              FirstHit([i \in 1..Len(yellow_keywords) |-> YellowHit(i)])]>>]
       ELSE [tier |-> "GREEN",
             reason |-> <<"No risk keywords detected - defaulting to Green", <<>>>>]

(***************************************************************************)
(* MCPSelector.  What the selector computes from the task text alone is    *)
(* tabulated once per task (TaskFacts); the rest reads the bridge.         *)
(***************************************************************************)
\* [kw for kw in keywords if kw in task_lower]
matched_keywords(keywords, task_lower) ==
    SelectSeq(keywords, LAMBDA kw : Contains(kw, task_lower))

\* the providers of PROVIDER_KEYWORDS with a keyword in the task
matching_providers(task) ==
    SelectSeq(PROVIDER_NAMES,
              LAMBDA p : matched_keywords(PROVIDER_KEYWORDS[p], lower(task)) /= <<>>)

\* determine_mcp_appropriateness looking for the keywords in the task as written
determine_mcp_appropriateness_case_sensitive(task, risk_tier) ==
    IF risk_tier = "RED" THEN "not_appropriate"
    ELSE IF \E i \in 1..Len(PROVIDER_NAMES) :
               matched_keywords(PROVIDER_KEYWORDS[PROVIDER_NAMES[i]], task) /= <<>>
    THEN "appropriate"
    ELSE "maybe_appropriate"

determine_mcp_appropriateness(task, risk_tier) ==
    IF risk_tier = "RED" THEN "not_appropriate"
    ELSE IF matching_providers(task) /= <<>> THEN "appropriate"
    ELSE "maybe_appropriate"

check_local_tools_availability(task) ==
    \E i \in 1..Len(LOCAL_TOOL_PROVIDERS) : Contains(LOCAL_TOOL_PROVIDERS[i], lower(task))

\* the words of the tasks that name a provider with a local tool, in lower case and
\* capitalised, next to words with and without risk keywords
LocalToolWords ==
    {
      \* 'github'
              <<"g", "i", "t", "h", "u", "b">>,
      \* 'GitHub'
              <<"G", "i", "t", "H", "u", "b">>,
      \* 'context7'
              <<"c", "o", "n", "t", "e", "x", "t", "7">>,
      \* 'playwright'
              <<"p", "l", "a", "y", "w", "r", "i", "g", "h", "t">>,
      \* 'security'
              <<"s", "e", "c", "u", "r", "i", "t", "y">>,
      \* 'docker'
              <<"d", "o", "c", "k", "e", "r">>,
      \* 'Docker'
              <<"D", "o", "c", "k", "e", "r">>,
      \* 'hello'
              <<"h", "e", "l", "l", "o">>,
      \* 'open'
              <<"o", "p", "e", "n">>,
      \* 'deploy'
              <<"d", "e", "p", "l", "o", "y">>,
      \* 'delete'
              <<"d", "e", "l", "e", "t", "e">>,
      \* 'the'
              <<"t", "h", "e">>
    }

\* the task strings over these words: none, one or two of them
LocalToolTasks ==
    {<<>>} \cup LocalToolWords \cup {a \o <<" ">> \o b : a, b \in LocalToolWords}

TaskFacts ==
    [task \in Tasks \cup LocalToolTasks |->
        LET risk == classify_risk(task)
        IN [risk_tier |-> risk.tier,
            risk_reason |-> risk.reason,
            mcp_appropriate |-> determine_mcp_appropriateness(task, risk.tier),
            matched |-> [p \in {PROVIDER_NAMES[i] : i \in 1..Len(PROVIDER_NAMES)} |->
                            matched_keywords(PROVIDER_KEYWORDS[p], lower(task))],
            local_tools_available |-> check_local_tools_availability(task)]]

\* MCPBridge.get_enabled_providers
get_enabled_providers ==
    IF ~is_mcp_enabled THEN <<>>
    ELSE LET providers == Get(config, "providers", <<>>)
             names == [i \in 1..Len(providers) |-> providers[i].name]
         IN SelectSeq(names, LAMBDA n : Get(ProviderConf(providers, n), "enabled", FALSE))

\* MCPBridge.get_allowed_actions
get_allowed_actions(provider) ==
    IF ~is_provider_enabled(provider) THEN <<>>
    ELSE Get(ProviderConf(Get(config, "providers", <<>>), provider), "actions", <<>>)

\* MCPBridge.get_required_env_vars
get_required_env_vars(provider) == Get(provider_required_env, provider, <<>>)

(***************************************************************************)
(* collect_readiness: the checks and the overall status                    *)
(***************************************************************************)
\* MIN_NODE_VERSION, and the comparison of version tuples
MIN_NODE_VERSION == <<18, 0, 0>>

version_at_least(v, min) ==
    \/ v[1] > min[1]
    \/ v[1] = min[1] /\ v[2] > min[2]
    \/ v[1] = min[1] /\ v[2] = min[2] /\ v[3] >= min[3]

Check(name, subject, status) == [name |-> name, subject |-> subject, status |-> status]

\* the checks of Node.js and npx, which only the legacy collect_readiness makes;
\* node_version is <<>> for None
node_checks(node_version, npx_available) ==
    << Check("Node.js Version", "",
             IF node_version = <<>> THEN "YELLOW"
             ELSE IF version_at_least(node_version, MIN_NODE_VERSION) THEN "GREEN"
             ELSE "RED"),
       Check("npx Availability", "", IF npx_available THEN "GREEN" ELSE "YELLOW") >>

\* the two checks of an enabled provider: its command and its environment; the first
\* element of a command that is a str is its first character, which resolves to nothing
provider_checks(provider_name) ==
    LET provider_config == ProviderConf(Get(config, "providers", <<>>), provider_name)
        command == Get(provider_config, "command", ListCmd(<<>>))
        required_env == Get(provider_required_env, provider_name, <<>>)
        missing_env == SelectSeq(required_env, LAMBDA e : e \notin environ)
    IN << Check("MCP Provider Command", provider_name,
                IF command.kind = "list" /\ command.argv = <<>> THEN "YELLOW"
                ELSE IF command.kind = "list" /\ is_command_available(command.argv[1])
                THEN "GREEN"
                ELSE "RED"),
          Check("MCP Provider Environment", provider_name,
                IF missing_env /= <<>> THEN "RED" ELSE "GREEN") >>

RECURSIVE providers_checks(_)
providers_checks(names) ==
    IF names = <<>> THEN <<>>
    ELSE provider_checks(Head(names)) \o providers_checks(Tail(names))

\* the checks of the MCP configuration; bridge_given is `mcp_bridge is not None`
mcp_checks(bridge_given) ==
    IF ~bridge_given THEN <<Check("MCP Configuration", "", "YELLOW")>>
    ELSE IF ~is_loaded THEN <<Check("MCP Configuration", "", "RED")>>
    ELSE IF ~is_mcp_enabled THEN <<Check("MCP Configuration", "", "YELLOW")>>
    ELSE <<Check("MCP Configuration", "", "GREEN")>>
             \o providers_checks(get_enabled_providers)

\* the check of ContextStream; client is None or holds is_configured
contextstream_check(client, requests_available) ==
    Check("ContextStream", "",
          IF ~client.none /\ client.is_configured /\ requests_available THEN "GREEN"
          ELSE "YELLOW")

memory_check(memory_writable) ==
    Check("Memory Directory Writable", "", IF memory_writable THEN "GREEN" ELSE "RED")

\* the overall status with the tests in the other order
overall_status_yellow_first(checks) ==
    IF \E i \in 1..Len(checks) : checks[i].status = "YELLOW" THEN "YELLOW"
    ELSE IF \E i \in 1..Len(checks) : checks[i].status = "RED" THEN "RED"
    ELSE "GREEN"

\* "Determine overall status" of collect_readiness
overall_status(checks) ==
    IF \E i \in 1..Len(checks) : checks[i].status = "RED" THEN "RED"
    ELSE IF \E i \in 1..Len(checks) : checks[i].status = "YELLOW" THEN "YELLOW"
    ELSE "GREEN"

\* collect_readiness(mcp_bridge, contextstream_client, env), given what the probes of
\* the machine find; legacy selects the imported version, which checks Node.js first
collect_readiness(legacy, node_version, npx_available, bridge_given, client, requests_available, memory_writable) ==
    LET checks == (IF legacy THEN node_checks(node_version, npx_available) ELSE <<>>)
                      \o mcp_checks(bridge_given)
                      \o <<contextstream_check(client, requests_available),
                           memory_check(memory_writable)>>
    IN [overall_status |-> overall_status(checks), checks |-> checks]

\* what `node --version` gives: None, and versions below, at and above the minimum
NodeVersions == {<<>>, <<17, 9, 1>>, <<18, 0, 0>>, <<22, 14, 0>>}

\* contextstream_client: None, not configured, configured
ReadinessClients ==
    {[none |-> TRUE], [none |-> FALSE, is_configured |-> FALSE],
     [none |-> FALSE, is_configured |-> TRUE]}

\* _get_provider_suggestions looping over PROVIDER_KEYWORDS instead of the enabled
\* providers of the configuration
get_provider_suggestions_keyword_order(task) ==
    IF ~is_mcp_enabled THEN <<>>
    ELSE LET Keywords(p) == Get(TaskFacts[task].matched, p, <<>>)
             suggested == SelectSeq(PROVIDER_NAMES,
                                    LAMBDA p : /\ InSeq(p, get_enabled_providers)
                                               /\ Keywords(p) /= <<>>
                                               /\ get_allowed_actions(p) /= <<>>)
         IN [i \in 1..Len(suggested) |->
                [provider_name |-> suggested[i],
                 reason |-> SubSeq(Keywords(suggested[i]), 1,
                                   IF Len(Keywords(suggested[i])) < 3
                                   THEN Len(Keywords(suggested[i])) ELSE 3),
                 allowed_actions |-> get_allowed_actions(suggested[i]),
                 required_env_vars |-> get_required_env_vars(suggested[i])]]

\* MCPSelector._get_provider_suggestions (the selector holds the bridge)
get_provider_suggestions(task) ==
    IF ~is_mcp_enabled THEN <<>>
    ELSE LET Keywords(p) == Get(TaskFacts[task].matched, p, <<>>)
             suggested == SelectSeq(get_enabled_providers,
                                    LAMBDA p : /\ Keywords(p) /= <<>>
                                               /\ get_allowed_actions(p) /= <<>>)
         IN [i \in 1..Len(suggested) |->
                [provider_name |-> suggested[i],
                 reason |-> SubSeq(Keywords(suggested[i]), 1,
                                   IF Len(Keywords(suggested[i])) < 3
                                   THEN Len(Keywords(suggested[i])) ELSE 3),
                 allowed_actions |-> get_allowed_actions(suggested[i]),
                 required_env_vars |-> get_required_env_vars(suggested[i])]]

\* MCPSelector._generate_action_parameters
generate_action_parameters(action) == Get(ACTION_PARAM_TEMPLATES, action, "{}")

Decision(decision, task, reason, provider_action, params, calls, seconds) ==
    [decision |-> decision, reason |-> reason, provider_action |-> provider_action,
     params |-> params, budget_required |-> [calls |-> calls, seconds |-> seconds],
     risk_tier |-> TaskFacts[task].risk_tier, risk_reason |-> TaskFacts[task].risk_reason]

\* execute_auto_mcp_decision without step 5, the readiness check
execute_auto_mcp_decision_no_readiness(task, readiness_status) ==
    LET facts == TaskFacts[task]
        provider_suggestions == get_provider_suggestions(task)
        provider_name == provider_suggestions[1].provider_name
        action_name == provider_suggestions[1].allowed_actions[1]
    IN IF facts.risk_tier \in {"RED", "YELLOW"}
       THEN Decision("block_unsafe", task, "AUTO-MCP BLOCKED: tier tasks require human review",
                     <<>>, "{}", 0, 0)
       ELSE IF facts.mcp_appropriate /= "appropriate" /\ facts.local_tools_available
       THEN Decision("use_local_tools", task, "Local tools available and MCP not appropriate",
                     <<>>, "{}", 0, 0)
       ELSE IF facts.mcp_appropriate = "not_appropriate"
       THEN Decision("block_safe", task, "MCP not appropriate and no local tools available",
                     <<>>, "{}", 0, 0)
       ELSE IF provider_suggestions = <<>>
       THEN Decision("block_safe", task, "No suitable MCP providers found for task",
                     <<>>, "{}", 0, 0)
       ELSE IF provider_suggestions[1].allowed_actions = <<>>
       THEN Decision("block_safe", task, "No allowed actions for provider", <<>>, "{}", 0, 0)
       ELSE IF ~is_action_allowed(provider_name, action_name)
       THEN Decision("block_safe", task, "Action not allowlisted for provider",
                     <<>>, "{}", 0, 0)
       ELSE Decision("execute_mcp", task,
                     "GREEN tier task with appropriate MCP provider and allowlisted action",
                     <<provider_name, action_name>>,
                     generate_action_parameters(action_name), 1, 10)

\* MCPSelector.execute_auto_mcp_decision(task, readiness_status, mcp_bridge)
execute_auto_mcp_decision(task, readiness_status) ==
    LET facts == TaskFacts[task]
        provider_suggestions == get_provider_suggestions(task)
        provider_name == provider_suggestions[1].provider_name
        action_name == provider_suggestions[1].allowed_actions[1]
    IN IF facts.risk_tier \in {"RED", "YELLOW"}
       THEN Decision("block_unsafe", task, "AUTO-MCP BLOCKED: tier tasks require human review",
                     <<>>, "{}", 0, 0)
       ELSE IF facts.mcp_appropriate /= "appropriate" /\ facts.local_tools_available
       THEN Decision("use_local_tools", task, "Local tools available and MCP not appropriate",
                     <<>>, "{}", 0, 0)
       ELSE IF facts.mcp_appropriate = "not_appropriate"
       THEN Decision("block_safe", task, "MCP not appropriate and no local tools available",
                     <<>>, "{}", 0, 0)
       ELSE IF readiness_status = "RED"
       THEN Decision("block_unsafe", task,
                     "AUTO-MCP BLOCKED: Readiness RED prevents autonomous execution",
                     <<>>, "{}", 0, 0)
       ELSE IF provider_suggestions = <<>>
       THEN Decision("block_safe", task, "No suitable MCP providers found for task",
                     <<>>, "{}", 0, 0)
       ELSE IF provider_suggestions[1].allowed_actions = <<>>
       THEN Decision("block_safe", task, "No allowed actions for provider", <<>>, "{}", 0, 0)
       ELSE IF ~is_action_allowed(provider_name, action_name)
       THEN Decision("block_safe", task, "Action not allowlisted for provider",
                     <<>>, "{}", 0, 0)
       ELSE Decision("execute_mcp", task,
                     "GREEN tier task with appropriate MCP provider and allowlisted action",
                     <<provider_name, action_name>>,
                     generate_action_parameters(action_name), 1, 10)

\* the readiness statuses the callers pass ("UNKNOWN" when no check ran)
ReadinessStatuses == {"GREEN", "YELLOW", "RED", "UNKNOWN"}

(***************************************************************************)
(* mcp_stdio: run_stdio_command and _redact                                *)
(***************************************************************************)
REDACT_KEYS ==
    {"GITHUB_TOKEN", "CONTEXTSTREAM_API_KEY", "MCP_API_KEY", "MCP_TLS_CERT",
     "MCP_SERVER_HOST", "MCP_SERVER_PORT"}

\* the replacement text of _redact
REDACTED ==
    <<"[", "r", "e", "d", "a", "c", "t", "e", "d", "]">>

\* the fixed texts of the results
CommandNotFound ==
    <<"C", "o", "m", "m", "a", "n", "d", " ", "n", "o", "t", " ", "f", "o", "u", "n", "d",
      ":", " ">>
MissingCommand ==
    <<"[", "m", "i", "s", "s", "i", "n", "g", "]">>
TimedOut ==
    <<"M", "C", "P", " ", "c", "o", "m", "m", "a", "n", "d", " ", "t", "i", "m", "e", "d",
      " ", "o", "u", "t">>
CommandFailedPrefix ==
    <<"M", "C", "P", " ", "c", "o", "m", "m", "a", "n", "d", " ", "f", "a", "i", "l", "e",
      "d", ":", " ">>
CommandFailed ==
    <<"M", "C", "P", " ", "c", "o", "m", "m", "a", "n", "d", " ", "f", "a", "i", "l", "e",
      "d">>
InvalidResponse ==
    <<"I", "n", "v", "a", "l", "i", "d", " ", "M", "C", "P", " ", "r", "e", "s", "p", "o",
      "n", "s", "e", " ", "(", "n", "o", "n", "-", "J", "S", "O", "N", ")">>

\* str(exc) of the OSError that subprocess.run raises for a command it may not execute
PermissionDenied(command0) ==
    <<"[", "E", "r", "r", "n", "o", " ", "1", "3", "]", " ", "P", "e", "r", "m", "i", "s",
      "s", "i", "o", "n", " ", "d", "e", "n", "i", "e", "d", ":", " ", "'">>
    \o command0 \o <<"'">>

\* None, and a str
None == [none |-> TRUE]
Str(text) == [none |-> FALSE, str |-> text]

\* the characters str.strip() and the JSON decoder treat as whitespace
WHITESPACE == {" ", "\t", "\n", "\r"}

\* str.replace(old, new) for a non-empty old: leftmost occurrences, not overlapping
RECURSIVE replace(_, _, _)
replace(text, old, new) ==
    IF Len(text) < Len(old) THEN text
    ELSE IF SubSeq(text, 1, Len(old)) = old
    THEN new \o replace(SubSeq(text, Len(old) + 1, Len(text)), old, new)
    ELSE <<text[1]>> \o replace(Tail(text), old, new)

\* the loop of _redact over the keys, in the order the set REDACT_KEYS is iterated
RECURSIVE redact_keys(_, _, _)
redact_keys(redacted, env, order) ==
    IF order = <<>> THEN redacted
    ELSE LET val == Get(env, Head(order), <<>>)
         IN redact_keys(IF val /= <<>> THEN replace(redacted, val, REDACTED) ELSE redacted,
                        env, Tail(order))

\* _redact(text, env)
redact(text, env, order) ==
    IF text = <<>> THEN text ELSE redact_keys(text, env, order)

\* the orders in which the keys of REDACT_KEYS that env sets can be visited
KeyOrders(env) ==
    LET keys == REDACT_KEYS \cap DOMAIN env
    IN {o \in [1..Cardinality(keys) -> keys] :
           \A i, j \in 1..Cardinality(keys) : o[i] = o[j] => i = j}

\* str.strip()
RECURSIVE lstrip(_)
lstrip(text) ==
    IF text /= <<>> /\ Head(text) \in WHITESPACE THEN lstrip(Tail(text)) ELSE text

RECURSIVE rstrip(_)
rstrip(text) ==
    IF text /= <<>> /\ text[Len(text)] \in WHITESPACE
    THEN rstrip(SubSeq(text, 1, Len(text) - 1)) ELSE text

strip(text) == rstrip(lstrip(text))

\* text[:n]
truncate(text, n) == IF Len(text) <= n THEN text ELSE SubSeq(text, 1, n)

\* the two-character escapes of a JSON string and what they decode to
JSON_ESCAPES ==
    [c \in {"\"", "\\", "/", "n", "t", "r"} |->
        CASE c = "n" -> "\n"
          [] c = "t" -> "\t"
          [] c = "r" -> "\r"
          [] OTHER -> c]

\* the JSON decoder inside a string literal, from position i, having decoded acc
\* (\b, \f and \uXXXX need letters that no text of the model has)
RECURSIVE scanstring(_, _, _)
scanstring(s, i, acc) ==
    IF i > Len(s) THEN [ok |-> FALSE]
    ELSE IF s[i] = "\"" THEN [ok |-> TRUE, value |-> acc, end |-> i + 1]
    ELSE IF s[i] = "\\"
    THEN IF i + 1 <= Len(s) /\ s[i + 1] \in DOMAIN JSON_ESCAPES
         THEN scanstring(s, i + 2, Append(acc, JSON_ESCAPES[s[i + 1]]))
         ELSE [ok |-> FALSE]
    ELSE IF s[i] \in {"\n", "\t", "\r"} THEN [ok |-> FALSE]
    ELSE scanstring(s, i + 1, Append(acc, s[i]))

\* json.loads(text): over the characters of the model the only documents are string
\* literals between optional whitespace; everything else raises JSONDecodeError
json_loads(text) ==
    LET doc == lstrip(text)
        scanned == scanstring(doc, 2, <<>>)
    IN IF doc = <<>> \/ Head(doc) /= "\"" THEN [ok |-> FALSE]
       ELSE IF ~scanned.ok THEN [ok |-> FALSE]
       ELSE IF lstrip(SubSeq(doc, scanned.end, Len(doc))) /= <<>> THEN [ok |-> FALSE]
       ELSE [ok |-> TRUE, data |-> scanned.value]

\* the slices of the previews and of the exception text
PREVIEW_CHARS == 800
EXC_CHARS == 400

\* the outcomes of subprocess.run
NotFound == [kind |-> "not_found"]
Timeout == [kind |-> "timeout"]
Raised == [kind |-> "exception"]
Exited(returncode, stdout, stderr) ==
    [kind |-> "exited", returncode |-> returncode, stdout |-> stdout, stderr |-> stderr]

\* run_stdio_command without the handler of subprocess.TimeoutExpired: the expiry of the
\* timeout is then caught by the handler of Exception
run_stdio_command_timeout_uncaught(command, env, os_environ, proc, order) ==
    LET env_safe == IF env /= EmptyDoc THEN env ELSE os_environ
        stdout == redact(proc.stdout, env_safe, order)
        stderr == redact(proc.stderr, env_safe, order)
        meta == [exit_code |-> proc.returncode, stdout_len |-> Len(stdout),
                 stderr_len |-> Len(stderr)]
        parsed == json_loads(stdout)
    IN CASE proc.kind = "not_found" ->
              [ok |-> FALSE, data |-> None,
               error |-> Str(CommandNotFound
                             \o (IF command /= <<>> THEN command[1] ELSE MissingCommand)),
               meta |-> [exit_code |-> -1]]
         [] proc.kind = "timeout" ->
              [ok |-> FALSE, data |-> None,
               error |-> Str(truncate(CommandFailedPrefix \o TimedOut, EXC_CHARS)),
               meta |-> [exit_code |-> -1]]
         [] proc.kind = "exception" ->
              [ok |-> FALSE, data |-> None,
               error |-> Str(truncate(CommandFailedPrefix \o PermissionDenied(command[1]),
                                      EXC_CHARS)),
               meta |-> [exit_code |-> -1]]
         [] proc.kind = "exited" /\ proc.returncode /= 0 ->
              [ok |-> FALSE, data |-> None,
               error |-> Str(IF strip(stderr) /= <<>> THEN strip(stderr) ELSE CommandFailed),
               meta |-> [exit_code |-> proc.returncode, stdout_len |-> Len(stdout),
                         stderr_len |-> Len(stderr),
                         stderr_preview |-> truncate(stderr, PREVIEW_CHARS)]]
         [] proc.kind = "exited" /\ proc.returncode = 0 /\ stdout = <<>> ->
              [ok |-> TRUE, data |-> None, error |-> None, meta |-> meta]
         [] proc.kind = "exited" /\ proc.returncode = 0 /\ stdout /= <<>> /\ ~parsed.ok ->
              [ok |-> FALSE, data |-> None, error |-> Str(InvalidResponse),
               meta |-> [exit_code |-> proc.returncode, stdout_len |-> Len(stdout),
                         stderr_len |-> Len(stderr),
                         stdout_preview |-> truncate(stdout, PREVIEW_CHARS)]]
         [] OTHER ->
              [ok |-> TRUE, data |-> Str(parsed.data), error |-> None, meta |-> meta]

\* run_stdio_command(command, payload, env, timeout_seconds), given what subprocess.run
\* did; elapsed_ms, a clock reading, is left out of meta
run_stdio_command(command, env, os_environ, proc, order) ==
    LET env_safe == IF env /= EmptyDoc THEN env ELSE os_environ
        stdout == redact(proc.stdout, env_safe, order)
        stderr == redact(proc.stderr, env_safe, order)
        meta == [exit_code |-> proc.returncode, stdout_len |-> Len(stdout),
                 stderr_len |-> Len(stderr)]
        parsed == json_loads(stdout)
    IN CASE proc.kind = "not_found" ->
              [ok |-> FALSE, data |-> None,
               error |-> Str(CommandNotFound
                             \o (IF command /= <<>> THEN command[1] ELSE MissingCommand)),
               meta |-> [exit_code |-> -1]]
         [] proc.kind = "timeout" ->
              [ok |-> FALSE, data |-> None, error |-> Str(TimedOut),
               meta |-> [exit_code |-> -1]]
         [] proc.kind = "exception" ->
              [ok |-> FALSE, data |-> None,
               error |-> Str(truncate(CommandFailedPrefix \o PermissionDenied(command[1]),
                                      EXC_CHARS)),
               meta |-> [exit_code |-> -1]]
         [] proc.kind = "exited" /\ proc.returncode /= 0 ->
              [ok |-> FALSE, data |-> None,
               error |-> Str(IF strip(stderr) /= <<>> THEN strip(stderr) ELSE CommandFailed),
               meta |-> [exit_code |-> proc.returncode, stdout_len |-> Len(stdout),
                         stderr_len |-> Len(stderr),
                         stderr_preview |-> truncate(stderr, PREVIEW_CHARS)]]
         [] proc.kind = "exited" /\ proc.returncode = 0 /\ stdout = <<>> ->
              [ok |-> TRUE, data |-> None, error |-> None, meta |-> meta]
         [] proc.kind = "exited" /\ proc.returncode = 0 /\ stdout /= <<>> /\ ~parsed.ok ->
              [ok |-> FALSE, data |-> None, error |-> Str(InvalidResponse),
               meta |-> [exit_code |-> proc.returncode, stdout_len |-> Len(stdout),
                         stderr_len |-> Len(stderr),
                         stdout_preview |-> truncate(stdout, PREVIEW_CHARS)]]
         [] OTHER ->
              [ok |-> TRUE, data |-> Str(parsed.data), error |-> None, meta |-> meta]

(***************************************************************************)
(* The inputs of run_stdio_command                                         *)
(***************************************************************************)
\* the longest captured stdout or stderr
MaxOutputLen == 5

\* the characters a process writes: a quote, a backslash, two letters and a newline
OutputChars == {"\"", "\\", "n", "k", "\n"}

RECURSIVE TextsOfLen(_)
TextsOfLen(n) ==
    IF n = 0 THEN {<<>>}
    ELSE {Append(t, c) : t \in TextsOfLen(n - 1), c \in OutputChars}

Outputs == UNION {TextsOfLen(n) : n \in 0..MaxOutputLen}

StdioCommands == {<<<<"n", "p", "x">>>>}

\* the values of the environment: a token, a certificate ending in a newline, a host name
StdioEnvs ==
    {EmptyDoc,
     [GITHUB_TOKEN |-> <<"k">>],
     [MCP_TLS_CERT |-> <<"k", "\n">>],
     [GITHUB_TOKEN |-> <<"k">>, MCP_SERVER_HOST |-> <<"r", "e", "d">>],
     [GITHUB_TOKEN |-> <<>>, MCP_API_KEY |-> <<"k", "n">>],
     [PATH |-> <<"k">>]}

OsEnvirons == {EmptyDoc, [GITHUB_TOKEN |-> <<"k">>]}

ProcOutcomes ==
    {NotFound, Timeout, Raised}
        \cup {Exited(0, out, <<>>) : out \in Outputs}
        \cup {Exited(1, <<>>, err) : err \in Outputs}
        \cup {Exited(code, <<"k">>, <<"k", "\n">>) : code \in {0, 1}}

\* the calls in flight: the arguments and what the process did
StdioCalls ==
    {[op |-> "run_stdio_command", returned |-> FALSE, command |-> command, env |-> env,
      os_environ |-> os_environ, proc |-> proc] :
        command \in StdioCommands, proc \in ProcOutcomes,
        env \in StdioEnvs, os_environ \in OsEnvirons}

(***************************************************************************)
(* MemoryStore.redact_secrets: the three groups of re.sub calls, on texts  *)
(* of ASCII characters                                                     *)
(***************************************************************************)
\* \w
WORD_CHARS ==
    {"a", "b", "c", "d", "e", "f", "g", "h", "i", "j", "k", "l", "m", "n", "o", "p", "q",
     "r", "s", "t", "u", "v", "w", "x", "y", "z", "A", "B", "C", "D", "E", "F", "G", "H",
     "I", "J", "K", "L", "M", "N", "O", "P", "Q", "R", "S", "T", "U", "V", "W", "X", "Y",
     "Z", "0", "1", "2", "3", "4", "5", "6", "7", "8", "9", "_"}

\* [A-Za-z0-9\-._~+/]
BEARER_CHARS ==
    {"a", "b", "c", "d", "e", "f", "g", "h", "i", "j", "k", "l", "m", "n", "o", "p", "q",
     "r", "s", "t", "u", "v", "w", "x", "y", "z", "A", "B", "C", "D", "E", "F", "G", "H",
     "I", "J", "K", "L", "M", "N", "O", "P", "Q", "R", "S", "T", "U", "V", "W", "X", "Y",
     "Z", "0", "1", "2", "3", "4", "5", "6", "7", "8", "9", "-", ".", "_", "~", "+", "/"}

\* secret_patterns: \b[A-Z0-9_]+<suffix>\b and the type named in the marker
secret_patterns ==
    <<[kind |-> "identifier", suffix |-> <<"_", "K", "E", "Y">>, repl |-> <<"[", "R", "E", "D", "A", "C", "T", "E", "D", ":", "K", "E", "Y", "]">>],
      [kind |-> "identifier", suffix |-> <<"_", "T", "O", "K", "E", "N">>,
       repl |-> <<"[", "R", "E", "D", "A", "C", "T", "E", "D", ":", "T", "O", "K", "E", "N", "]">>],
      [kind |-> "identifier", suffix |-> <<"_", "S", "E", "C", "R", "E", "T">>,
       repl |-> <<"[", "R", "E", "D", "A", "C", "T", "E", "D", ":", "S", "E", "C", "R", "E", "T", "]">>],
      [kind |-> "identifier", suffix |-> <<"_", "P", "A", "S", "S", "W", "O", "R", "D">>,
       repl |-> <<"[", "R", "E", "D", "A", "C", "T", "E", "D", ":", "P", "A", "S", "S", "W", "O", "R",
      "D", "]">>]>>

\* Authorization:\s*Bearer\s+[A-Za-z0-9\-._~+/]+
bearer_pattern ==
    [kind |-> "bearer",
     header |-> <<"A", "u", "t", "h", "o", "r", "i", "z", "a", "t", "i", "o", "n", ":">>,
     scheme |-> <<"B", "e", "a", "r", "e", "r">>,
     repl |-> <<"A", "u", "t", "h", "o", "r", "i", "z", "a", "t", "i", "o", "n", ":", " ",
               "B", "e", "a", "r", "e", "r", " ", "[", "R", "E", "D", "A", "C", "T", "E",
               "D", ":", "T", "O", "K", "E", "N", "]">>]

\* param_patterns: <name>=[^&\s]+ and its replacement <name>=[REDACTED:<NAME>]
param_patterns ==
    <<[kind |-> "param", name |-> <<"p", "a", "s", "s", "w", "o", "r", "d", "=">>,
       repl |-> <<"p", "a", "s", "s", "w", "o", "r", "d", "=", "[", "R", "E", "D", "A", "C", "T", "E",
               "D", ":", "P", "A", "S", "S", "W", "O", "R", "D", "]">>],
      [kind |-> "param", name |-> <<"a", "p", "i", "_", "k", "e", "y", "=">>,
       repl |-> <<"a", "p", "i", "_", "k", "e", "y", "=", "[", "R", "E", "D", "A", "C", "T", "E", "D",
               ":", "A", "P", "I", "_", "K", "E", "Y", "]">>],
      [kind |-> "param", name |-> <<"t", "o", "k", "e", "n", "=">>,
       repl |-> <<"t", "o", "k", "e", "n", "=", "[", "R", "E", "D", "A", "C", "T", "E", "D", ":", "T",
               "O", "K", "E", "N", "]">>]>>

\* the length of the longest prefix of text whose characters are all in chars
RECURSIVE span(_, _)
span(text, chars) ==
    IF text /= <<>> /\ Head(text) \in chars THEN 1 + span(Tail(text), chars) ELSE 0

\* text starts with the literal, ignoring case
StartsWithIgnoreCase(text, literal) ==
    /\ Len(text) >= Len(literal)
    /\ lower(SubSeq(text, 1, Len(literal))) = lower(literal)

\* text[n:]
drop(text, n) == SubSeq(text, n + 1, Len(text))

\* the length of the match of the pattern at the start of text, 0 when there is none;
\* prev_is_word says whether the character before text is a word character (for \b)
match_len(pattern, text, prev_is_word) ==
    CASE pattern.kind = "identifier" ->
           \* between two \b the match is a whole run of word characters: the class
           \* [A-Z0-9_] under IGNORECASE is every ASCII word character
           LET run == span(text, WORD_CHARS)
               tail == drop(SubSeq(text, 1, run), run - Len(pattern.suffix))
           IN IF /\ ~prev_is_word
                 /\ run > Len(pattern.suffix)
                 /\ lower(tail) = lower(pattern.suffix)
              THEN run ELSE 0
      [] pattern.kind = "bearer" ->
           IF ~StartsWithIgnoreCase(text, pattern.header) THEN 0
           ELSE LET a == Len(pattern.header)
                           + span(drop(text, Len(pattern.header)), WHITESPACE)
                    b == a + Len(pattern.scheme)
                    c == b + span(drop(text, b), WHITESPACE)
                    d == c + span(drop(text, c), BEARER_CHARS)
                IN IF StartsWithIgnoreCase(drop(text, a), pattern.scheme) /\ c > b /\ d > c
                   THEN d ELSE 0
      [] pattern.kind = "param" ->
           IF ~StartsWithIgnoreCase(text, pattern.name) THEN 0
           ELSE LET value == drop(text, Len(pattern.name))
                    n == CHOOSE k \in 0..Len(value) :
                            /\ \A i \in 1..k : value[i] \notin WHITESPACE \cup {"&"}
                            /\ k < Len(value) => value[k + 1] \in WHITESPACE \cup {"&"}
                IN IF n > 0 THEN Len(pattern.name) + n ELSE 0

\* re.sub(pattern, repl, text, flags=re.IGNORECASE), scanning from the left
RECURSIVE re_sub(_, _, _)
re_sub(pattern, text, prev_is_word) ==
    IF text = <<>> THEN <<>>
    ELSE LET m == match_len(pattern, text, prev_is_word)
         IN IF m > 0
            THEN pattern.repl \o re_sub(pattern, drop(text, m), text[m] \in WORD_CHARS)
            ELSE <<Head(text)>> \o re_sub(pattern, Tail(text), Head(text) \in WORD_CHARS)

\* the substitutions of a list of patterns, one after the other
RECURSIVE re_sub_all(_, _)
re_sub_all(patterns, text) ==
    IF patterns = <<>> THEN text
    ELSE re_sub_all(Tail(patterns), re_sub(Head(patterns), text, FALSE))

\* MemoryStore.redact_secrets(text) for a str: the redacted text, or ValueError
redact_secrets(text) ==
    LET redacted == re_sub_all(secret_patterns \o <<bearer_pattern>> \o param_patterns, text)
    IN IF redacted = <<>> THEN [ok |-> FALSE, error |-> "Redaction produced empty string"]
       ELSE [ok |-> TRUE, text |-> redacted]

(***************************************************************************)
(* MemoryStore.store_memory, step by step on the memory directory          *)
(***************************************************************************)
\* the callers of store_memory on one memory directory
Writers == {"w1", "w2"}

\* the store_memory calls of a behaviour
MaxStores == 2

\* range(2) in _store_remote, and the slice of the summary in the index entry
REMOTE_ATTEMPTS == 2
SUMMARY_CHARS == 100

required_fields == <<"id", "type", "summary", "sources", "date", "tags">>

\* the fields of the records that hold a list of str; the others hold a str
LIST_FIELDS == {"sources", "tags"}

\* a record without secrets
RecordPlain ==
    [id |-> <<"r", "1">>,
     type |-> <<"n", "o", "t", "e">>,
     summary |-> <<"f", "i", "x", "e", "d", " ", "i", "t">>,
     sources |-> <<<<"c", "l", "i">>>>,
     date |-> <<"d", "1">>,
     tags |-> <<<<"o", "p", "s">>>>]
\* an identifier ending in _TOKEN in the summary
RecordIdentifier ==
    [id |-> <<"r", "1">>,
     type |-> <<"n", "o", "t", "e">>,
     summary |-> <<"s", "e", "t", " ", "G", "I", "T", "H", "U", "B", "_", "T", "O", "K", "E", "N">>,
     sources |-> <<<<"c", "l", "i">>>>,
     date |-> <<"d", "1">>,
     tags |-> <<<<"o", "p", "s">>>>]
\* an api_key= parameter in the summary
RecordApiKey ==
    [id |-> <<"r", "1">>,
     type |-> <<"n", "o", "t", "e">>,
     summary |-> <<"a", "p", "i", "_", "k", "e", "y", "=", "a", "b", "c">>,
     sources |-> <<<<"c", "l", "i">>>>,
     date |-> <<"d", "1">>,
     tags |-> <<<<"o", "p", "s">>>>]
\* a password= parameter in a tag
RecordTagPassword ==
    [id |-> <<"r", "1">>,
     type |-> <<"n", "o", "t", "e">>,
     summary |-> <<"f", "i", "x", "e", "d", " ", "i", "t">>,
     sources |-> <<<<"c", "l", "i">>>>,
     date |-> <<"d", "1">>,
     tags |-> <<<<"p", "a", "s", "s", "w", "o", "r", "d", "=", "p", "w">>>>]
\* a record without the field tags
RecordNoTags ==
    [id |-> <<"r", "1">>,
     type |-> <<"n", "o", "t", "e">>,
     summary |-> <<"f", "i", "x", "e", "d", " ", "i", "t">>,
     sources |-> <<<<"c", "l", "i">>>>,
     date |-> <<"d", "1">>]
\* a record with an empty summary
RecordEmptySummary ==
    [id |-> <<"r", "1">>,
     type |-> <<"n", "o", "t", "e">>,
     summary |-> <<>>,
     sources |-> <<<<"c", "l", "i">>>>,
     date |-> <<"d", "1">>,
     tags |-> <<<<"o", "p", "s">>>>]

MemoryRecords ==
    {RecordPlain, RecordIdentifier, RecordApiKey, RecordTagPassword, RecordNoTags,
     RecordEmptySummary}

\* contextstream_client: None, a url with an api_key, a url alone
NoClient == [configured |-> FALSE]
FullClient == [configured |-> TRUE, url |-> TRUE, api_key |-> TRUE]
UrlOnlyClient == [configured |-> TRUE, url |-> TRUE, api_key |-> FALSE]
Clients == {NoClient, FullClient, UrlOnlyClient}

\* what one urlopen does: status 200, another status, URLError/HTTPError/TimeoutError,
\* any other exception
RemoteOutcomes == {"status_200", "status_other", "url_error", "other_exception"}

\* the paths of the memory directory: the record file of a call, INDEX.jsonl, and the
\* same with the suffix replaced by .tmp.<uuid>
record_path(n) == [stem |-> "record", id |-> n, tmp |-> ""]
index_file == [stem |-> "INDEX", id |-> 0, tmp |-> ""]

\* writing in place: the temp path is the destination
temp_path_in_place(file_path, uid) == file_path

\* file_path.with_suffix('.tmp.<uuid4>')
temp_path(file_path, uid) == [file_path EXCEPT !.tmp = uid]

IsFinalName(path) == path.tmp = ""

EmptyDir == [path \in {} |-> <<>>]
Put(dir, path, file) ==
    [p \in DOMAIN dir \cup {path} |-> IF p = path THEN file ELSE dir[p]]
Remove(dir, path) == [p \in DOMAIN dir \ {path} |-> dir[p]]

\* _redact_nested on a list of str
redact_list(list) ==
    IF \E i \in 1..Len(list) : ~redact_secrets(list[i]).ok THEN [ok |-> FALSE]
    ELSE [ok |-> TRUE, value |-> [i \in 1..Len(list) |-> redact_secrets(list[i]).text]]

\* the redaction loop of _store_local over the fields of the record
redact_field(key, value) ==
    IF key \in LIST_FIELDS THEN redact_list(value)
    ELSE LET r == redact_secrets(value)
         IN IF r.ok THEN [ok |-> TRUE, value |-> r.text] ELSE [ok |-> FALSE]

redact_record(record) ==
    IF \E key \in DOMAIN record : ~redact_field(key, record[key]).ok THEN [ok |-> FALSE]
    ELSE [ok |-> TRUE,
          record |-> [key \in DOMAIN record |-> redact_field(key, record[key]).value]]

\* redact_record, tabulated over the records of the model
RedactedRecords == [record \in MemoryRecords |-> redact_record(record)]

\* index_entry of _store_local (the timestamp, a clock reading, is left out)
index_entry(record, redacted_record, file_path) ==
    [file |-> file_path,
     type |-> Get(record, "type", <<"u", "n", "k", "n", "o", "w", "n">>),
     tags |-> Get(record, "tags", <<>>),
     summary |-> truncate(Get(redacted_record, "summary", <<>>), SUMMARY_CHARS)]

\* store_memory going on to the remote store whatever the local store did
after_local_store_always_remote(local_status, client) ==
    IF ~client.configured THEN "return"
    ELSE IF client.url /\ client.api_key THEN "remote"
    ELSE "return_not_configured"

\* store_memory after _store_local: raise, call _store_remote, or return
after_local_store(local_status, client) ==
    IF local_status /= "success" THEN "raise"
    ELSE IF ~client.configured THEN "return"
    ELSE IF client.url /\ client.api_key THEN "remote"
    ELSE "return_not_configured"

\* payload of _store_remote: the record it was given, under the project name
remote_payload(record) == [record |-> record, project |-> "neuronx"]

\* a caller with no call in flight, and what its last call gave
Idle(result) == [pc |-> "idle", result |-> result]

NoResult == [raised |-> "none", local |-> "none", remote |-> "none", attempts |-> 0]

\* store_memory on the memory directory: callers store records step by step, each file
\* system call of _store_local and each urlopen of _store_remote being one step
MemoryInit ==
    /\ files = EmptyDir
    /\ writer = [w \in Writers |-> Idle(NoResult)]
    /\ store_calls = 0
    /\ local_stores = <<>>
    /\ remote_requests = {}

(***************************************************************************)
(* EvidenceLogger: sessions and evidence files                             *)
(***************************************************************************)
\* current_session_id is None
NoSession == ""

\* the seconds the clock shows, the uuid4() calls and the _write_evidence_file calls of
\* a behaviour
MaxTime == 1
MaxSessions == 2
MaxEvidenceWrites == 3

\* str(uuid4())[:8] of the n-th call
SessionIds == <<"1b4e28ba", "9f8d0c1e", "c56a4180">>

\* filename of _write_evidence_file: timestamp, session prefix and event type
evidence_filename(timestamp, session_id, event_type) ==
    [timestamp |-> timestamp, session_prefix |-> session_id, event_type |-> event_type]

\* what open(filepath, 'w') and json.dump do: the file is written, open raises, or
\* json.dump raises after a part was written
WriteOutcomes == {"written", "open_failed", "dump_failed"}

\* _write_evidence_file(event_type, data) with self.current_session_id = session_id:
\* the directory after it (writes counts how often the name was opened for writing)
write_evidence_file(event_type, data, session_id, outcome) ==
    LET filename == evidence_filename(now, session_id, event_type)
        before == IF filename \in DOMAIN evidence_files
                  THEN evidence_files[filename].writes ELSE 0
    IN IF outcome = "open_failed" THEN evidence_files
       ELSE Put(evidence_files, filename,
                [data |-> data, complete |-> outcome = "written", writes |-> before + 1])

\* _stable_hash(data): a digest, kept as a value that stands for it
stable_hash(data) == [sha256_16 |-> data]

\* EvidenceLogger.start_session(task_description, config)
start_session(task_description, outcome) ==
    LET session_id == SessionIds[uuids + 1]
    IN /\ uuids < MaxSessions
       /\ evidence_writes < MaxEvidenceWrites
       /\ uuids' = uuids + 1
       /\ current_session_id' = session_id
       /\ session_start_time' = now
       /\ evidence_files' =
            write_evidence_file("session_start",
                                [session_id |-> session_id,
                                 task_description |-> task_description,
                                 start_time |-> now, status |-> "started"],
                                session_id, outcome)
       /\ evidence_writes' = evidence_writes + 1
       /\ last' = [op |-> "start_session", session_before |-> current_session_id,
                   returned |-> session_id]
       /\ UNCHANGED <<now, bridgeVars, memVars>>

\* log_event without the check of the active session
log_event_unchecked(event_type, event_data, outcome) ==
    /\ evidence_writes < MaxEvidenceWrites
    /\ evidence_files' =
         write_evidence_file(event_type,
                             [session_id |-> current_session_id, timestamp |-> now,
                              event_type |-> event_type, event_data |-> event_data],
                             current_session_id, outcome)
    /\ evidence_writes' = evidence_writes + 1
    /\ last' = [op |-> "log_event", session_before |-> current_session_id,
                raised |-> "none",
                returned |-> evidence_filename(now, current_session_id, event_type)]
    /\ UNCHANGED <<current_session_id, session_start_time, now, uuids, bridgeVars,
                   memVars>>

\* EvidenceLogger.log_event(event_type, event_data)
log_event(event_type, event_data, outcome) ==
    IF current_session_id = NoSession
    THEN /\ last' = [op |-> "log_event", session_before |-> current_session_id,
                     raised |-> "RuntimeError"]
         /\ UNCHANGED <<evVars, bridgeVars, memVars>>
    ELSE /\ evidence_writes < MaxEvidenceWrites
         /\ evidence_files' =
              write_evidence_file(event_type,
                                  [session_id |-> current_session_id, timestamp |-> now,
                                   event_type |-> event_type, event_data |-> event_data],
                                  current_session_id, outcome)
         /\ evidence_writes' = evidence_writes + 1
         /\ last' = [op |-> "log_event", session_before |-> current_session_id,
                     raised |-> "none",
                     returned |-> evidence_filename(now, current_session_id, event_type)]
         /\ UNCHANGED <<current_session_id, session_start_time, now, uuids, bridgeVars,
                        memVars>>

\* EvidenceLogger.log_mcp_call(provider, action, ok, error, meta, params_redacted)
log_mcp_call(provider, action, ok, error, params_redacted, outcome) ==
    log_event("mcp_call",
              [provider |-> provider, action |-> action, ok |-> ok, error |-> error,
               params_hash |-> stable_hash(params_redacted),
               params_keys |-> DOMAIN params_redacted],
              outcome)

\* EvidenceLogger.end_session(final_status, summary)
end_session(final_status, outcome) ==
    IF current_session_id = NoSession
    THEN /\ last' = [op |-> "end_session", session_before |-> current_session_id]
         /\ UNCHANGED <<evVars, bridgeVars, memVars>>
    ELSE /\ evidence_writes < MaxEvidenceWrites
         /\ evidence_files' =
              write_evidence_file("session_end",
                                  [session_id |-> current_session_id, end_time |-> now,
                                   duration_seconds |-> now - session_start_time,
                                   final_status |-> final_status],
                                  current_session_id, outcome)
         /\ evidence_writes' = evidence_writes + 1
         /\ current_session_id' = NoSession
         /\ session_start_time' = 0
         /\ last' = [op |-> "end_session", session_before |-> current_session_id]
         /\ UNCHANGED <<now, uuids, bridgeVars, memVars>>

\* a second passes
Tick ==
    /\ now < MaxTime
    /\ now' = now + 1
    /\ UNCHANGED <<evidence_files, current_session_id, session_start_time, uuids,
                   evidence_writes, bridgeVars, memVars, last>>

EvidenceInit ==
    /\ evidence_files = EmptyDir
    /\ current_session_id = NoSession
    /\ session_start_time = 0
    /\ now = 0
    /\ uuids = 0
    /\ evidence_writes = 0

(***************************************************************************)
(* The broker as a state machine                                           *)
(***************************************************************************)
Init ==
    /\ config = EmptyDoc
    /\ is_loaded = FALSE
    /\ load_errors = <<>>
    /\ provider_instances = <<>>
    /\ environ \in SUBSET EnvNames
    /\ installed \in SUBSET Commands
    /\ last = [op |-> "init"]
    /\ MemoryInit
    /\ EvidenceInit

LoadConfig == \E doc \in Configs : load_config(doc)

LoadUnreadable ==
    \E why \in {"Configuration file not found", "Invalid JSON in config file"} :
        load_config_unreadable(why)

\* the environment and the commands on PATH change between calls
EnvironmentChange ==
    /\ \E e \in SUBSET EnvNames, c \in SUBSET Commands :
          /\ <<e, c>> /= <<environ, installed>>
          /\ environ' = e
          /\ installed' = c
    /\ last' = [op |-> "environment"]
    /\ UNCHANGED <<config, is_loaded, load_errors, provider_instances, memVars, evVars>>

RouteCall ==
    \E target \in Targets, risk_tier \in RiskTiers, role \in Roles, procOk \in BOOLEAN :
        route_call(target[1], target[2], risk_tier, role, procOk)

Next ==
    \/ LoadConfig
    \/ LoadUnreadable
    \/ EnvironmentChange
    \/ RouteCall

Spec == Init /\ [][Next]_vars

\* The selector deciding for tasks on a bridge whose registry is loaded and reloaded
AutoDecision ==
    \E task \in Tasks, readiness_status \in ReadinessStatuses :
        \E d \in {execute_auto_mcp_decision(task, readiness_status)} :
            /\ last' = [op |-> "execute_auto_mcp_decision", task |-> task,
                        readiness_status |-> readiness_status, decision |-> d.decision,
                        reason |-> d.reason, provider_action |-> d.provider_action,
                        params |-> d.params, budget_required |-> d.budget_required,
                        risk_tier |-> d.risk_tier, risk_reason |-> d.risk_reason]
            /\ UNCHANGED <<bridgeVars, memVars, evVars>>

NextSelector ==
    \/ LoadConfig
    \/ LoadUnreadable
    \/ EnvironmentChange
    \/ AutoDecision

SpecSelector == Init /\ [][NextSelector]_vars

\* collect_readiness on a bridge whose registry is loaded and reloaded
CollectReadiness ==
    \E legacy \in BOOLEAN, bridge_given \in BOOLEAN, client \in ReadinessClients,
       requests_available \in BOOLEAN, memory_writable \in BOOLEAN :
       \E node_version \in IF legacy THEN NodeVersions ELSE {<<>>},
          npx_available \in IF legacy THEN BOOLEAN ELSE {FALSE} :
          \E r \in {collect_readiness(legacy, node_version, npx_available, bridge_given,
                                      client, requests_available, memory_writable)} :
             /\ last' = [op |-> "collect_readiness", legacy |-> legacy,
                         overall_status |-> r.overall_status, checks |-> r.checks]
             /\ UNCHANGED <<bridgeVars, memVars, evVars>>

NextReadiness ==
    \/ LoadConfig
    \/ LoadUnreadable
    \/ EnvironmentChange
    \/ CollectReadiness

SpecReadiness == Init /\ [][NextReadiness]_vars

\* execute_auto_mcp_decision once, for a task that may name a provider with a local
\* tool, on a bridge that is fresh or has loaded a registry
InitLocalTools ==
    /\ \E loaded \in BOOLEAN :
          /\ config = (IF loaded
                       THEN [enabled |-> TRUE,
                             providers |-> <<Entry("github", GitHubOk),
                                             Entry("playwright", PlaywrightOk)>>]
                       ELSE EmptyDoc)
          /\ is_loaded = loaded
    /\ load_errors = <<>>
    /\ provider_instances = <<>>
    /\ environ = {}
    /\ installed = Commands
    /\ last \in {[op |-> "task", task |-> t, readiness_status |-> r] :
                    t \in LocalToolTasks, r \in ReadinessStatuses}
    /\ MemoryInit
    /\ EvidenceInit

DecideTask ==
    /\ last.op = "task"
    /\ \E d \in {execute_auto_mcp_decision(last.task, last.readiness_status)} :
          last' = [op |-> "execute_auto_mcp_decision", task |-> last.task,
                   readiness_status |-> last.readiness_status, decision |-> d.decision,
                   reason |-> d.reason, provider_action |-> d.provider_action,
                   params |-> d.params, budget_required |-> d.budget_required,
                   risk_tier |-> d.risk_tier, risk_reason |-> d.risk_reason]
    /\ UNCHANGED <<bridgeVars, memVars, evVars>>

SpecLocalTools == InitLocalTools /\ [][DecideTask]_vars

\* run_stdio_command on its own: a call is in flight with the outcome of its process,
\* and returns
InitStdio ==
    /\ config = EmptyDoc
    /\ is_loaded = FALSE
    /\ load_errors = <<>>
    /\ provider_instances = <<>>
    /\ environ = {}
    /\ installed = {}
    /\ last \in {c \in StdioCalls : c.env = EmptyDoc \/ c.os_environ = EmptyDoc}
    /\ MemoryInit
    /\ EvidenceInit

RunStdioCommand ==
    /\ last.op = "run_stdio_command"
    /\ ~last.returned
    /\ \E order \in KeyOrders(IF last.env /= EmptyDoc THEN last.env ELSE last.os_environ) :
         \E r \in {run_stdio_command(last.command, last.env, last.os_environ, last.proc,
                                     order)} :
            last' = [op |-> "run_stdio_command", returned |-> TRUE,
                     command |-> last.command, env |-> last.env,
                     os_environ |-> last.os_environ, proc |-> last.proc,
                     ok |-> r.ok, data |-> r.data, error |-> r.error, meta |-> r.meta]
    /\ UNCHANGED <<bridgeVars, memVars, evVars>>

SpecStdio == InitStdio /\ [][RunStdioCommand]_vars

InitMemory ==
    /\ config = EmptyDoc
    /\ is_loaded = FALSE
    /\ load_errors = <<>>
    /\ provider_instances = <<>>
    /\ environ = {}
    /\ installed = {}
    /\ last = [op |-> "init"]
    /\ MemoryInit
    /\ EvidenceInit

\* what store_memory gives its caller: the exception it raised, or the result
Result(raised, local, remote, remote_error, attempts) ==
    [raised |-> raised, local |-> local, remote |-> remote, remote_error |-> remote_error,
     attempts |-> attempts]

\* store_memory once _store_local has returned or raised
FinishLocal(w, local_status) ==
    LET next == after_local_store(local_status, writer[w].client)
    IN writer' =
         [writer EXCEPT ![w] =
            CASE next = "raise" ->
                   Idle(Result("IOError", local_status, "skipped", "none", 0))
              [] next = "remote" ->
                   [writer[w] EXCEPT !.pc = "remote", !.local = local_status,
                                     !.attempts = 0]
              [] next = "return" ->
                   Idle(Result("none", local_status, "skipped", "none", 0))
              [] OTHER ->
                   Idle(Result("none", local_status, "skipped", "remote_not_configured", 0))]

\* the except branch of _write_atomic (the temp file is unlinked) and of store_memory
AbortLocal(w, temp) ==
    /\ files' = Remove(files, temp)
    /\ FinishLocal(w, "failure")
    /\ UNCHANGED <<store_calls, local_stores, remote_requests>>

\* store_memory(record, contextstream_client): the check of the required fields
store_memory(w, record, client) ==
    /\ writer[w].pc = "idle"
    /\ store_calls < MaxStores
    /\ store_calls' = store_calls + 1
    /\ writer' =
         [writer EXCEPT ![w] =
            IF \E i \in 1..Len(required_fields) : required_fields[i] \notin DOMAIN record
            THEN Idle(Result("ValueError", "none", "none", "none", 0))
            ELSE [pc |-> "is_writable", record |-> record, client |-> client,
                  file_path |-> record_path(store_calls + 1), stage |-> "record",
                  target |-> record_path(store_calls + 1), content |-> <<>>,
                  entry |-> <<>>, local |-> "pending", attempts |-> 0]]
    /\ UNCHANGED <<files, local_stores, remote_requests, bridgeVars, last, evVars>>

\* _store_local up to the first _write_atomic: _is_writable (its marker file is created
\* and deleted within the step) and the redaction of the fields
store_local_begin(w, writable) ==
    /\ writer[w].pc = "is_writable"
    /\ IF writable /\ RedactedRecords[writer[w].record].ok
       THEN /\ writer' = [writer EXCEPT ![w].pc = "open",
                                        ![w].content =
                                            RedactedRecords[writer[w].record].record]
            /\ UNCHANGED <<files, store_calls, local_stores, remote_requests>>
       ELSE AbortLocal(w, temp_path(writer[w].target, w))
    /\ UNCHANGED <<bridgeVars, last, evVars>>

\* _write_atomic: open(temp_path, 'w') creates the temp file, empty
write_atomic_open(w, ok) ==
    LET temp == temp_path(writer[w].target, w)
    IN /\ writer[w].pc = "open"
       /\ IF ok
          THEN /\ files' = Put(files, temp, [content |-> writer[w].content,
                                             complete |-> FALSE])
               /\ writer' = [writer EXCEPT ![w].pc = "write"]
               /\ UNCHANGED <<store_calls, local_stores, remote_requests>>
          ELSE AbortLocal(w, temp)
       /\ UNCHANGED <<bridgeVars, last, evVars>>

\* _write_atomic: f.write(content) and the close; a failure leaves part of the content
write_atomic_write(w, ok) ==
    LET temp == temp_path(writer[w].target, w)
    IN /\ writer[w].pc = "write"
       /\ IF ok
          THEN /\ files' = Put(files, temp, [content |-> writer[w].content,
                                             complete |-> TRUE])
               /\ writer' = [writer EXCEPT ![w].pc = "rename"]
               /\ UNCHANGED <<store_calls, local_stores, remote_requests>>
          ELSE AbortLocal(w, temp)
       /\ UNCHANGED <<bridgeVars, last, evVars>>

\* _write_atomic: temp_path.rename(file_path); after the record file _store_local goes
\* on to the index entry, after the index it returns
write_atomic_rename(w, ok) ==
    LET temp == temp_path(writer[w].target, w)
        renamed == Put(Remove(files, temp), writer[w].target, files[temp])
        entry == index_entry(writer[w].record, writer[w].content, writer[w].file_path)
    IN /\ writer[w].pc = "rename"
       /\ IF ~ok THEN AbortLocal(w, temp)
          ELSE IF writer[w].stage = "record"
          THEN /\ files' = renamed
               /\ writer' = [writer EXCEPT ![w].pc = "open", ![w].stage = "index",
                                           ![w].target = index_file,
                                           ![w].content = <<entry>>,
                                           ![w].entry = entry]
               /\ UNCHANGED <<store_calls, local_stores, remote_requests>>
          ELSE /\ files' = renamed
               /\ local_stores' = Append(local_stores, [record |-> writer[w].record,
                                                         entry |-> writer[w].entry])
               /\ FinishLocal(w, "success")
               /\ UNCHANGED <<store_calls, remote_requests>>
       /\ UNCHANGED <<bridgeVars, last, evVars>>

\* _store_remote without its outer handler: an exception that is not a URLError, an
\* HTTPError or a TimeoutError reaches the caller of store_memory
store_remote_attempt_unguarded(w, outcome) ==
    LET attempts == writer[w].attempts + 1
        Return(remote, remote_error) ==
            Idle(Result("none", writer[w].local, remote, remote_error, attempts))
    IN /\ writer[w].pc = "remote"
       /\ writer' =
            [writer EXCEPT ![w] =
               IF outcome = "status_200" THEN Return("success", "none")
               ELSE IF outcome = "other_exception"
               THEN Idle(Result("Exception", "none", "none", "none", attempts))
               ELSE IF attempts = REMOTE_ATTEMPTS
               THEN Return("failure", "remote_store_error")
               ELSE [writer[w] EXCEPT !.attempts = attempts]]
       /\ remote_requests' =
            IF outcome \in {"status_200", "status_other"}
            THEN remote_requests \cup {remote_payload(writer[w].record)}
            ELSE remote_requests
       /\ UNCHANGED <<files, store_calls, local_stores, bridgeVars, last, evVars>>

\* _store_remote: one urlopen of the loop over range(2)
store_remote_attempt(w, outcome) ==
    LET attempts == writer[w].attempts + 1
        Return(remote, remote_error) ==
            Idle(Result("none", writer[w].local, remote, remote_error, attempts))
    IN /\ writer[w].pc = "remote"
       /\ writer' =
            [writer EXCEPT ![w] =
               IF outcome = "status_200" THEN Return("success", "none")
               ELSE IF outcome = "other_exception" \/ attempts = REMOTE_ATTEMPTS
               THEN Return("failure", "remote_store_error")
               ELSE [writer[w] EXCEPT !.attempts = attempts]]
       /\ remote_requests' =
            IF outcome \in {"status_200", "status_other"}
            THEN remote_requests \cup {remote_payload(writer[w].record)}
            ELSE remote_requests
       /\ UNCHANGED <<files, store_calls, local_stores, bridgeVars, last, evVars>>

NextMemory ==
    \/ \E w \in Writers, record \in MemoryRecords, client \in Clients :
          store_memory(w, record, client)
    \/ \E w \in Writers, writable \in BOOLEAN : store_local_begin(w, writable)
    \/ \E w \in Writers, ok \in BOOLEAN : write_atomic_open(w, ok)
    \/ \E w \in Writers, ok \in BOOLEAN : write_atomic_write(w, ok)
    \/ \E w \in Writers, ok \in BOOLEAN : write_atomic_rename(w, ok)
    \/ \E w \in Writers, outcome \in RemoteOutcomes : store_remote_attempt(w, outcome)

SpecMemory == InitMemory /\ [][NextMemory]_vars

\* one EvidenceLogger: sessions are started and ended, events are logged, time passes
InitEvidence ==
    /\ config = EmptyDoc
    /\ is_loaded = FALSE
    /\ load_errors = <<>>
    /\ provider_instances = <<>>
    /\ environ = {}
    /\ installed = {}
    /\ last = [op |-> "init"]
    /\ MemoryInit
    /\ EvidenceInit

NextEvidence ==
    \/ \E task \in {"list github issues"}, outcome \in WriteOutcomes :
          start_session(task, outcome)
    \/ \E event_type \in {"risk_classification"}, outcome \in WriteOutcomes,
          event_data \in {[tier |-> "GREEN"], [tier |-> "RED"]} :
          log_event(event_type, event_data, outcome)
    \/ \E ok \in BOOLEAN, params_redacted \in {EmptyDoc, [owner |-> "acme"]},
          outcome \in WriteOutcomes :
          log_mcp_call("github", "list_issues", ok, IF ok THEN "" ELSE "denied",
                       params_redacted, outcome)
    \/ \E final_status \in {"completed", "failed"}, outcome \in WriteOutcomes :
          end_session(final_status, outcome)
    \/ Tick

SpecEvidence == InitEvidence /\ [][NextEvidence]_vars

\* the classifier alone: a task string is handed to classify_risk once
PolicyWords ==
    {
      \* 'PII access'
          <<"P", "I", "I", " ", "a", "c", "c", "e", "s", "s">>,
      \* 'Billing'
          <<"B", "i", "l", "l", "i", "n", "g">>,
      \* 'auth'
          <<"a", "u", "t", "h">>,
      \* 'data export'
          <<"d", "a", "t", "a", " ", "e", "x", "p", "o", "r", "t">>,
      \* 'drop'
          <<"d", "r", "o", "p">>,
      \* 'database'
          <<"d", "a", "t", "a", "b", "a", "s", "e">>,
      \* 'user'
          <<"u", "s", "e", "r">>,
      \* 'schema'
          <<"s", "c", "h", "e", "m", "a">>,
      \* 'hello'
          <<"h", "e", "l", "l", "o">>,
      \* 'PII'
          <<"P", "I", "I">>
    }

\* the task strings: none, one or two of the words, and the tasks of two scenarios
PolicyTasks ==
    {<<>>} \cup PolicyWords \cup {a \o <<" ">> \o b : a, b \in PolicyWords}
        \cup {TaskRotate, TaskDocs}

InitPolicy ==
    /\ config = EmptyDoc
    /\ is_loaded = FALSE
    /\ load_errors = <<>>
    /\ provider_instances = <<>>
    /\ environ = {}
    /\ installed = {}
    /\ last \in {[op |-> "task", task |-> t] : t \in PolicyTasks}
    /\ MemoryInit
    /\ EvidenceInit

ClassifyRisk ==
    /\ last.op = "task"
    /\ \E r \in {classify_risk(last.task)} :
          last' = [op |-> "classify_risk", task |-> last.task, tier |-> r.tier,
                   reason |-> r.reason]
    /\ UNCHANGED <<bridgeVars, memVars, evVars>>

SpecPolicy == InitPolicy /\ [][ClassifyRisk]_vars

\* the adapters alone: one adapter is built from a configuration and called once
AdapterConfs ==
    {c @@ m : c \in {EmptyDoc, [command |-> ListCmd(<<>>)], [command |-> NonListCmd],
                     [command |-> ListCmd(<<"npx">>)]},
              m \in {EmptyDoc, [serverMode |-> "stdio"], [serverMode |-> "noop"],
                     [serverMode |-> "NOOP"]}}

AdapterActions ==
    {"list_issues", " list_issues ", "search", " search ", "navigate", " navigate ",
     "delete_repo", " ", ""}

InitAdapters ==
    /\ config = EmptyDoc
    /\ is_loaded = FALSE
    /\ load_errors = <<>>
    /\ provider_instances = <<>>
    /\ environ \in SUBSET EnvNames
    /\ installed \in SUBSET Commands
    /\ last \in {[op |-> "adapter", provider |-> p, conf |-> c, action |-> a,
                  procOk |-> ok] :
                    p \in {"github", "context7", "playwright"}, c \in AdapterConfs,
                    a \in AdapterActions, ok \in BOOLEAN}
    /\ MemoryInit
    /\ EvidenceInit

AdapterCall ==
    /\ last.op = "adapter"
    /\ \E r \in {CASE last.provider = "github" ->
                        github_call(GitHubMCPProvider(last.conf), last.action, last.procOk)
                   [] last.provider = "context7" ->
                        context7_call(GitHubMCPProvider(last.conf), last.action,
                                      last.procOk)
                   [] last.provider = "playwright" ->
                        playwright_call(GitHubMCPProvider(last.conf), last.action,
                                        last.procOk)} :
          last' = [op |-> "call", provider |-> last.provider, conf |-> last.conf,
                   action |-> last.action, result |-> r]
    /\ UNCHANGED <<bridgeVars, memVars, evVars>>

SpecAdapters == InitAdapters /\ [][AdapterCall]_vars

(***************************************************************************)
(* The gates of route_call, stated on the registry, the environment and    *)
(* the arguments                                                           *)
(***************************************************************************)
CapabilityEnabled == is_loaded /\ HasKey(config, "enabled") /\ config.enabled

ConfOf(provider) ==
    IF HasKey(config, "providers") THEN ProviderConf(config.providers, provider) ELSE EmptyDoc

ProviderEnabled(provider) ==
    CapabilityEnabled /\ HasKey(ConfOf(provider), "enabled") /\ ConfOf(provider).enabled

ActionAllowlisted(provider, action) ==
    /\ ProviderEnabled(provider)
    /\ HasKey(ConfOf(provider), "actions")
    /\ \E i \in 1..Len(ConfOf(provider).actions) : ConfOf(provider).actions[i] = action

TierPermitted(risk_tier) == upper(risk_tier) \in {"GREEN", "YELLOW"}

RolePermitted(provider, role) ==
    \/ provider = "github" /\ upper(role) \in {"PLANNER", "IMPLEMENTER", "AUDITOR"}
    \/ provider \in {"playwright", "docker"} /\ upper(role) \in {"IMPLEMENTER", "AUDITOR"}
    \/ provider = "security" /\ upper(role) \in {"PLANNER", "AUDITOR"}

CommandConfigured(provider) ==
    /\ HasKey(ConfOf(provider), "command")
    /\ ConfOf(provider).command.kind = "list"
    /\ ConfOf(provider).command.argv /= <<>>

CommandResolvable(provider) ==
    CommandConfigured(provider) /\ ConfOf(provider).command.argv[1] \in installed

RequiredEnvPresent(provider) ==
    provider = "github" => "GITHUB_TOKEN" \in environ

AllGatesPass(provider, action, risk_tier, role) ==
    /\ CapabilityEnabled
    /\ ProviderEnabled(provider)
    /\ ActionAllowlisted(provider, action)
    /\ TierPermitted(risk_tier)
    /\ RolePermitted(provider, role)
    /\ CommandConfigured(provider)
    /\ CommandResolvable(provider)
    /\ RequiredEnvPresent(provider)

Routed == last.op = "route_call"

\* C1: when any gate of route_call fails (capability, provider, allowlist, tier, role,
\* command configured, command resolvable, required environment variable), the
\* adapter's call() is invoked zero times and the result has ok = false.
C1_NoAdapterCallOnGateFailure ==
    (Routed /\ ~AllGatesPass(last.provider, last.action, last.risk_tier, last.role))
        => (last.adapter_calls = 0 /\ ~last.ok)

\* C1 witness: the permission check passed, GITHUB_TOKEN is missing, no adapter call
C1_Witness ==
    /\ Routed
    /\ last.permission.allowed
    /\ last.provider = "github"
    /\ CommandResolvable("github")
    /\ "GITHUB_TOKEN" \notin environ
    /\ last.adapter_calls = 0
    /\ ~last.ok

\* C2: with risk tier RED the permission check denies and route_call never returns
\* ok = true, whatever the provider, action, role and registry; the tier check passes
\* only for GREEN and YELLOW.
C2_RedNeverAllowed ==
    Routed =>
        /\ upper(last.risk_tier) = "RED" => (~last.permission.allowed /\ ~last.ok)
        /\ last.permission.checks.risk_tier_allowed
              => upper(last.risk_tier) \in {"GREEN", "YELLOW"}

\* C2 witness: a RED call that every other check would let through
C2_Witness ==
    /\ Routed
    /\ last.risk_tier = "red"
    /\ last.permission.checks.action_allowed
    /\ last.permission.checks.role_allowed
    /\ ~last.permission.allowed
    /\ last.error = "Risk tier not allowed for MCP operations"

CheckOrder ==
    <<"mcp_enabled", "provider_enabled", "action_allowed", "risk_tier_allowed",
      "role_allowed">>

ReasonOfCheck ==
    [mcp_enabled |-> "MCP integration not enabled",
     provider_enabled |-> "Provider not enabled",
     action_allowed |-> "Action not allowlisted for provider",
     risk_tier_allowed |-> "Risk tier not allowed for MCP operations",
     role_allowed |-> "Role not allowed"]

\* C3: the decision of check_mcp_permissions is a function of the registry now held and
\* the four arguments: each check is the gate it names, allowed holds iff all five
\* checks hold, and a denial names the first failing check in the order capability,
\* provider, allowlist, tier, role -- after any history of loads and calls.
C3_PermissionDecision ==
    Routed =>
        LET p == last.permission
        IN /\ p.checks = [mcp_enabled |-> CapabilityEnabled,
                          provider_enabled |-> ProviderEnabled(last.provider),
                          action_allowed |-> ActionAllowlisted(last.provider, last.action),
                          risk_tier_allowed |-> TierPermitted(last.risk_tier),
                          role_allowed |-> RolePermitted(last.provider, last.role)]
           /\ p.allowed <=> \A i \in 1..5 : p.checks[CheckOrder[i]]
           /\ ~p.allowed =>
                 \E i \in 1..5 :
                    /\ ~p.checks[CheckOrder[i]]
                    /\ \A j \in 1..(i - 1) : p.checks[CheckOrder[j]]
                    /\ p.reason = ReasonOfCheck[CheckOrder[i]]

\* C3 witness: after an earlier call built an adapter, the allowlist and the tier both
\* fail; the reason is the allowlist
C3_Witness ==
    /\ Routed
    /\ last.permission.checks.provider_enabled
    /\ ~last.permission.checks.action_allowed
    /\ ~last.permission.checks.risk_tier_allowed
    /\ last.permission.reason = "Action not allowlisted for provider"
    /\ provider_instances /= <<>>

\* C5 (as claimed): a load_config that read a document and found a violation leaves
\* the registry unloaded.
C5_RejectedLoadLeavesUnloaded ==
    (last.op = "load_config" /\ last.parsed /\ ~last.ok) => ~is_loaded

Decided == last.op = "execute_auto_mcp_decision"

\* C4: execute_auto_mcp_decision returns execute_mcp only if the task classifies GREEN,
\* the readiness status is not RED, the selected provider is enabled and the selected
\* action is in its allowlist at decision time; with tier RED or YELLOW, or with
\* readiness RED, the decision is block_unsafe.
C4_ExecuteOnlyWhenSafe ==
    Decided =>
        /\ last.decision = "execute_mcp" =>
              /\ classify_risk(last.task).tier = "GREEN"
              /\ last.readiness_status /= "RED"
              /\ ProviderEnabled(last.provider_action[1])
              /\ ActionAllowlisted(last.provider_action[1], last.provider_action[2])
        /\ (classify_risk(last.task).tier \in {"RED", "YELLOW"}
              \/ last.readiness_status = "RED")
             => last.decision = "block_unsafe"

\* C4 witness: an execute_mcp decision
C4_Witness ==
    /\ Decided
    /\ last.decision = "execute_mcp"
    /\ last.provider_action = <<"github", "get_issue">>
    /\ last.readiness_status = "YELLOW"

Returned == last.op = "run_stdio_command" /\ last.returned

\* the texts of a returned result
ReturnedTexts ==
    {x.str : x \in {y \in {last.error, last.data} : ~y.none}}
        \cup {last.meta[f] : f \in DOMAIN last.meta \cap {"stdout_preview", "stderr_preview"}}

\* the non-empty values of the sensitive names in the environment of the call
SensitiveValues ==
    LET env_safe == IF last.env /= EmptyDoc THEN last.env ELSE last.os_environ
    IN {env_safe[k] : k \in REDACT_KEYS \cap DOMAIN env_safe} \ {<<>>}

\* C6: no non-empty value of a sensitive environment name occurs as a substring of a
\* text of the result that run_stdio_command returns (error, data, stdout_preview,
\* stderr_preview), on success and on every failure path.
C6_NoSensitiveValueReturned ==
    Returned => \A v \in SensitiveValues : \A text \in ReturnedTexts : ~Contains(v, text)

(***************************************************************************)
(* The memory store                                                        *)
(***************************************************************************)
\* the str values of a record or of an index entry
TextsOf(doc) ==
    {doc[k] : k \in DOMAIN doc \ (LIST_FIELDS \cup {"file"})}
        \cup UNION {{doc[k][i] : i \in 1..Len(doc[k])} : k \in DOMAIN doc \cap LIST_FIELDS}

\* the texts held by the file under a name of the memory directory
FileTexts(path) ==
    IF path.stem = "INDEX"
    THEN UNION {TextsOf(files[path].content[i]) : i \in 1..Len(files[path].content)}
    ELSE TextsOf(files[path].content)

SECRET_SUFFIXES == {<<"_", "K", "E", "Y">>, <<"_", "T", "O", "K", "E", "N">>,
                    <<"_", "S", "E", "C", "R", "E", "T">>,
                    <<"_", "P", "A", "S", "S", "W", "O", "R", "D">>}
SECRET_PARAMS == {<<"p", "a", "s", "s", "w", "o", "r", "d", "=">>,
                  <<"a", "p", "i", "_", "k", "e", "y", "=">>,
                  <<"t", "o", "k", "e", "n", "=">>}
BearerPrefix == <<"B", "e", "a", "r", "e", "r", " ">>

\* the secret-shaped substrings of a text: identifiers ending in _KEY, _TOKEN, _SECRET or
\* _PASSWORD, bearer tokens, and the values of password=, api_key= and token= parameters
SecretShaped(text) ==
    LET Sub(i, j) == SubSeq(text, i, j)
        Run(i, j, chars) ==
            /\ i <= j
            /\ \A k \in i..j : text[k] \in chars
            /\ j < Len(text) => text[j + 1] \notin chars
        ValueChars == {text[k] : k \in 1..Len(text)} \ (WHITESPACE \cup {"&"})
        Identifiers ==
            {Sub(i, j) : <<i, j>> \in
                {<<i, j>> \in (1..Len(text)) \X (1..Len(text)) :
                    /\ Run(i, j, WORD_CHARS)
                    /\ i > 1 => text[i - 1] \notin WORD_CHARS
                    /\ \E suffix \in SECRET_SUFFIXES :
                          /\ j - i + 1 > Len(suffix)
                          /\ Sub(j - Len(suffix) + 1, j) = suffix}}
        After(prefixes, chars) ==
            {Sub(i, j) : <<i, j>> \in
                {<<i, j>> \in (1..Len(text)) \X (1..Len(text)) :
                    /\ Run(i, j, chars)
                    /\ \E prefix \in prefixes :
                          /\ i > Len(prefix)
                          /\ Sub(i - Len(prefix), i - 1) = prefix}}
    IN Identifiers \cup After({BearerPrefix}, BEARER_CHARS) \cup After(SECRET_PARAMS, ValueChars)

\* the secret-shaped substrings of the records of the model
SecretsOf == [record \in MemoryRecords |-> UNION {SecretShaped(t) : t \in TextsOf(record)}]

\* C7: after store_memory has stored a record locally, no secret-shaped substring of a
\* string field of the record occurs in a file under a final name of the memory
\* directory (its record file, the index file).
C7_NoSecretPersisted ==
    \A i \in 1..Len(local_stores) :
        \A path \in {p \in DOMAIN files : IsFinalName(p)} :
            \A secret \in SecretsOf[local_stores[i].record] :
                \A text \in FileTexts(path) : ~Contains(secret, text)

\* C8: a caller is in the remote store only after its local store succeeded, and a call
\* whose local store did not succeed has made no remote attempt.
C8_LocalBeforeRemote ==
    \A w \in Writers :
        /\ writer[w].pc = "remote" => writer[w].local = "success"
        /\ (writer[w].pc = "idle" /\ writer[w].result.local /= "success")
              => /\ writer[w].result.attempts = 0
                 /\ writer[w].result.remote \in {"none", "skipped"}

\* C8 witness: one caller is retrying the remote store after its local store, another
\* call has failed locally
C8_Witness ==
    \E w, v \in Writers :
        /\ writer[w].pc = "remote"
        /\ writer[w].attempts = 1
        /\ writer[v].pc = "idle"
        /\ writer[v].result.raised = "IOError"

\* C9: every file under a final name of the memory directory is complete, at every step
\* of every store and whatever step fails; and a call that fails before its record file
\* is renamed into place leaves no file under that record's name.
C9_AtomicWrite ==
    /\ [](\A path \in DOMAIN files : IsFinalName(path) => files[path].complete)
    /\ [][\A w \in Writers :
             (/\ writer[w].pc \notin {"idle", "remote"}
              /\ writer[w].stage = "record"
              /\ writer'[w].pc = "idle")
               => writer[w].file_path \notin DOMAIN files']_vars

\* C9 witness: a record file is visible while its writer has a part of the index in a
\* temp file and the store of another caller has failed
C9_Witness ==
    /\ \E path \in DOMAIN files : IsFinalName(path) /\ path.stem = "record"
    /\ \E path \in DOMAIN files : ~IsFinalName(path) /\ ~files[path].complete
    /\ \E w \in Writers : writer[w].pc = "idle" /\ writer[w].result.raised = "IOError"

\* C10: the index holds one line per successful store, in store order.
C10_IndexAppendOnly ==
    local_stores /= <<>> =>
        /\ index_file \in DOMAIN files
        /\ files[index_file].content = [i \in 1..Len(local_stores) |-> local_stores[i].entry]

(***************************************************************************)
(* The evidence logger                                                     *)
(***************************************************************************)
\* C11: every evidence write creates a new file: no step of start_session, log_event,
\* log_mcp_call or end_session, at any timing, overwrites or modifies an evidence file
\* that already exists
C11_EveryWriteCreatesNewFile ==
    [][\A f \in DOMAIN evidence_files :
          /\ f \in DOMAIN evidence_files'
          /\ evidence_files'[f] = evidence_files[f]]_vars

\* the session is active
SessionActive == current_session_id # NoSession

\* the files a step creates or writes again
WrittenInStep ==
    {f \in DOMAIN evidence_files' :
        f \notin DOMAIN evidence_files \/ evidence_files'[f] # evidence_files[f]}

\* C12: the logger has an active session exactly from a start_session call until the
\* next end_session call and at most one at a time; log_event with no active session
\* (before any start, or after end_session) raises an error and writes no file, and
\* every event written while a session is active carries that session's id
C12_SessionLifecycle ==
    /\ [](/\ last.op = "start_session" => SessionActive /\ current_session_id = last.returned
          /\ last.op = "end_session" => ~SessionActive
          /\ last.op = "log_event" =>
                /\ last.raised = "RuntimeError" <=> last.session_before = NoSession
                /\ last.raised = "none" =>
                      /\ current_session_id = last.session_before
                      /\ last.returned.session_prefix = last.session_before
          /\ \A f \in DOMAIN evidence_files :
                /\ f.session_prefix # NoSession
                /\ evidence_files[f].data.session_id = f.session_prefix)
    /\ [][/\ current_session_id' # current_session_id =>
                \/ last'.op = "start_session" /\ current_session_id' # NoSession
                \/ last'.op = "end_session" /\ current_session_id' = NoSession
          /\ ~SessionActive /\ WrittenInStep # {} => last'.op = "start_session"
          /\ SessionActive /\ last'.op = "log_event" =>
                \A f \in WrittenInStep :
                   evidence_files'[f].data.session_id = current_session_id]_vars

\* log_event raised after a session was started and ended, and an event of that
\* session is on disk
C12_Witness ==
    /\ last.op = "log_event"
    /\ last.raised = "RuntimeError"
    /\ \E f \in DOMAIN evidence_files : f.event_type = "session_end"
    /\ \E f \in DOMAIN evidence_files :
          f.event_type = "mcp_call" /\ f.session_prefix = SessionIds[1]

(***************************************************************************)
(* The broker: call-time checks, load errors, the check map                *)
(***************************************************************************)
\* the declared required environment variables of the provider that are not set
MissingEnv(provider) ==
    IF provider = "github" THEN {"GITHUB_TOKEN"} \ environ ELSE {}

\* the elements of a sequence
Range(s) == {s[i] : i \in 1..Len(s)}

\* C13: when the permission check passes, route_call re-checks that the command is
\* configured and resolvable and that every declared required environment variable is
\* set; with a variable missing it returns ok = false with an error listing exactly
\* the missing names, before the adapter is invoked
C13_CallTimeChecks ==
    (Routed /\ last.permission.allowed) =>
        /\ ~CommandConfigured(last.provider) =>
              /\ ~last.ok /\ last.adapter_calls = 0
              /\ last.error = "No command configured for provider"
        /\ CommandConfigured(last.provider) /\ ~CommandResolvable(last.provider) =>
              /\ ~last.ok /\ last.adapter_calls = 0
              /\ last.error = "Provider command not found"
        /\ CommandResolvable(last.provider) /\ MissingEnv(last.provider) # {} =>
              /\ ~last.ok /\ last.adapter_calls = 0
              /\ last.error = "Missing required environment variables"
              /\ Range(last.missing_env) = MissingEnv(last.provider)
              /\ Len(last.missing_env) = Cardinality(MissingEnv(last.provider))
        /\ last.adapter_calls = 1 =>
              CommandResolvable(last.provider) /\ MissingEnv(last.provider) = {}

\* the permission check passed and the command resolves, GITHUB_TOKEN is not set: the
\* error names it and no adapter was called
C13_Witness ==
    /\ Routed
    /\ last.permission.allowed
    /\ CommandResolvable(last.provider)
    /\ last.missing_env = <<"GITHUB_TOKEN">>
    /\ last.error = "Missing required environment variables"
    /\ last.adapter_calls = 0

\* the violations of one provider entry, each as the error that reports it
ProviderViolations(name, pconf) ==
    IF name \notin DOMAIN provider_actions THEN {<<"Unknown provider", name>>}
    ELSE IF ~HasKey(pconf, "enabled") THEN {<<"Provider missing 'enabled' field", name>>}
    ELSE IF HasKey(pconf, "enabled_json") THEN {<<"Provider 'enabled' must be boolean", name>>}
    ELSE IF ~pconf.enabled THEN {}
    ELSE (IF ~HasKey(pconf, "actions")
          THEN {<<"Provider missing 'actions' allowlist", name>>}
          ELSE {<<"Provider: invalid action", name, a>> :
                   a \in {b \in Range(pconf.actions) : ~InSeq(b, provider_actions[name])}})
         \cup
         (IF ~HasKey(pconf, "command") THEN {<<"Provider missing 'command' field", name>>}
          ELSE IF pconf.command.kind /= "list"
          THEN {<<"Provider 'command' must be an array (argv style)", name>>}
          ELSE IF pconf.command.argv /= <<>> /\ pconf.command.argv[1] \notin installed
          THEN {<<"Provider command not found", name, pconf.command.argv[1]>>}
          ELSE {})

\* the violations of a capability configuration
Violations(doc) ==
    IF ~HasKey(doc, "enabled") THEN {<<"Missing 'enabled' field in config">>}
    ELSE IF HasKey(doc, "enabled_json") THEN {<<"'enabled' must be a boolean">>}
    ELSE IF ~doc.enabled THEN {}
    ELSE IF ~HasKey(doc, "providers") THEN {<<"Missing 'providers' section in config">>}
    ELSE UNION {ProviderViolations(doc.providers[i].name, doc.providers[i].conf) :
                   i \in 1..Len(doc.providers)}

\* C14 (as claimed): after load_config rejected a configuration, load_errors holds
\* every violation of that configuration, not only the first one
C14_EveryViolationRecorded ==
    (last.op = "load_config" /\ last.parsed /\ ~last.ok) =>
        Violations(config) \subseteq Range(load_errors)

CheckNames ==
    {"mcp_enabled", "provider_enabled", "action_allowed", "risk_tier_allowed",
     "role_allowed"}

\* C15 (as claimed): every result of check_mcp_permissions, allowed or denied, has a
\* check map with exactly the five entries mcp_enabled, provider_enabled,
\* action_allowed, risk_tier_allowed and role_allowed, each a boolean
C15_FiveBooleanChecks ==
    Routed =>
        /\ DOMAIN last.permission.check_values = CheckNames
        /\ \A k \in CheckNames : DOMAIN last.permission.check_values[k] = {"bool"}

(***************************************************************************)
(* The risk classifier                                                     *)
(***************************************************************************)
Classified == last.op = "classify_risk"

\* the keywords of an always-RED category: its parts between the separators
CategoryKeywords(category) ==
    {strip(k) : k \in Range(split(lower(category), "/"))}

\* the always-RED categories with a keyword in the task
CategoriesIn(task) ==
    {c \in Range(always_red_categories) :
        \E k \in CategoryKeywords(c) : Contains(k, lower(task))}

\* C16 (as claimed): for every task string that contains, case-insensitively, a keyword
\* of an always-RED category, classify_risk returns RED and the reason names that
\* category
C16_CategoryKeywordIsRed ==
    (Classified /\ CategoriesIn(last.task) # {}) =>
        /\ last.tier = "RED"
        /\ last.reason[1] = "Always Red category"
        /\ last.reason[2] \in CategoriesIn(last.task)

\* C17 (as claimed): classify_risk checks the always-RED categories, then the RED
\* keywords, then the YELLOW keywords, and the first match decides: a task with a RED
\* and a YELLOW keyword is RED, every entry of each keyword list classifies a task that
\* contains it, and a task with no keyword match (the empty string too) is GREEN
C17_FirstMatchDecides ==
    Classified =>
        LET InTask(kw) == Contains(lower(kw), lower(last.task))
            red == \E i \in 1..Len(red_keywords) : InTask(red_keywords[i])
            yellow == \E i \in 1..Len(yellow_keywords) : InTask(yellow_keywords[i])
        IN /\ CategoriesIn(last.task) = {} /\ red => last.tier = "RED"
           /\ CategoriesIn(last.task) = {} /\ ~red /\ yellow => last.tier = "YELLOW"
           /\ CategoriesIn(last.task) = {} /\ ~red /\ ~yellow => last.tier = "GREEN"

(***************************************************************************)
(* The autonomous decision                                                 *)
(***************************************************************************)
\* C18 (as claimed): for a task classified GREEN whose appropriateness is not
\* APPROPRIATE, execute_auto_mcp_decision returns use_local_tools when a local tool is
\* available for the task and block_safe otherwise, whatever the readiness status
C18_LocalToolsBeforeReadiness ==
    (/\ Decided
     /\ classify_risk(last.task).tier = "GREEN"
     /\ determine_mcp_appropriateness(last.task, "GREEN") /= "appropriate") =>
        last.decision = IF check_local_tools_availability(last.task)
                        THEN "use_local_tools" ELSE "block_safe"

\* the providers of the configuration, in its order, that are enabled and have a
\* keyword in the task
EnabledMatching(task) ==
    LET providers == Get(config, "providers", <<>>)
        names == [i \in 1..Len(providers) |-> providers[i].name]
    IN SelectSeq(names,
                 LAMBDA n : /\ ProviderEnabled(n)
                            /\ n \in DOMAIN PROVIDER_KEYWORDS
                            /\ \E k \in Range(PROVIDER_KEYWORDS[n]) : Contains(k, lower(task)))

\* the allowlist of a provider of the configuration
Allowlist(provider) == Get(ConfOf(provider), "actions", <<>>)

\* C19 (as claimed): when execute_auto_mcp_decision returns execute_mcp, the provider
\* is the first enabled provider in configuration order whose keywords match the task,
\* the action is the first action of its allowlist, the parameters are the template of
\* that action ({} for an action without one) and the budget is {calls: 1, seconds: 10}
C19_FirstEnabledMatchingProvider ==
    (Decided /\ last.decision = "execute_mcp") =>
        /\ last.provider_action[1] = EnabledMatching(last.task)[1]
        /\ last.provider_action[2] = Allowlist(last.provider_action[1])[1]
        /\ last.params = Get(ACTION_PARAM_TEMPLATES, last.provider_action[2], "{}")
        /\ last.budget_required = [calls |-> 1, seconds |-> 10]

\* C19 (amended): when execute_auto_mcp_decision returns execute_mcp, the provider is
\* the first provider in configuration order that is enabled, has a keyword in the
\* task and has a non-empty allowlist; the action is the first action of its allowlist,
\* the parameters are the template of that action ({} for an action without one) and
\* the budget is {calls: 1, seconds: 10}; decision, provider and action are a function
\* of the task, the readiness status and the registry
C19_FirstProviderWithActions ==
    (Decided /\ last.decision = "execute_mcp") =>
        LET candidates == SelectSeq(EnabledMatching(last.task),
                                    LAMBDA n : Allowlist(n) /= <<>>)
        IN /\ candidates /= <<>>
           /\ last.provider_action[1] = candidates[1]
           /\ last.provider_action[2] = Allowlist(candidates[1])[1]
           /\ last.params = Get(ACTION_PARAM_TEMPLATES, last.provider_action[2], "{}")
           /\ last.budget_required = [calls |-> 1, seconds |-> 10]

\* execute_mcp with the second enabled matching provider of the configuration: the
\* first one has an empty allowlist
C19_Witness ==
    /\ Decided
    /\ last.decision = "execute_mcp"
    /\ Len(EnabledMatching(last.task)) = 2
    /\ last.provider_action = <<EnabledMatching(last.task)[2], "navigate">>
    /\ last.params = "{\"url\":\"https://example.com\"}"

(***************************************************************************)
(* The provider adapters                                                   *)
(***************************************************************************)
\* C20 (as claimed): every adapter's call(action, params) returns a result {ok, data,
\* error, meta} and never raises, for every action, server mode and adapter
\* configuration; meta always contains provider, action, server_mode,
\* server_available and command_configured
C20_AdapterNeverRaises ==
    last.op = "call" =>
        /\ last.result.raised = "none"
        /\ {"ok", "data", "error", "meta"} \subseteq DOMAIN last.result
        /\ {"provider", "action", "server_mode", "server_available", "command_configured"}
              \subseteq DOMAIN last.result.meta

(***************************************************************************)
(* The outcomes of run_stdio_command                                       *)
(***************************************************************************)
\* the environment whose values run_stdio_command redacts
EnvSafe == IF last.env /= EmptyDoc THEN last.env ELSE last.os_environ

\* the process of the call ran to its exit with this kind of return code
ExitedZero == last.proc.kind = "exited" /\ last.proc.returncode = 0
ExitedNonZero == last.proc.kind = "exited" /\ last.proc.returncode /= 0

\* the fields of a structured result
StructuredResult ==
    /\ last.ok \in BOOLEAN
    /\ last.error.none \in BOOLEAN
    /\ last.data.none \in BOOLEAN
    /\ "exit_code" \in DOMAIN last.meta

\* C21 as stated: run_stdio_command always returns a structured result; a non-zero exit
\* gives ok=false with error equal to the captured stderr (as redacted), or the generic
\* message when stderr is empty; a zero exit with stdout that is not JSON gives ok=false
\* with the invalid-response error; a zero exit with valid JSON gives ok=true with the
\* parsed data; an expired timeout gives ok=false with the timeout error.
C21_OutcomesAsStated ==
    Returned =>
        /\ StructuredResult
        /\ last.proc.kind = "timeout" => ~last.ok /\ last.error = Str(TimedOut)
        /\ last.proc.kind = "exited" =>
             \E order \in KeyOrders(EnvSafe) :
                LET stdout == redact(last.proc.stdout, EnvSafe, order)
                    stderr == redact(last.proc.stderr, EnvSafe, order)
                IN /\ ExitedNonZero =>
                        /\ ~last.ok
                        /\ last.error = Str(IF stderr = <<>> THEN CommandFailed ELSE stderr)
                   /\ ExitedZero /\ ~json_loads(stdout).ok =>
                        ~last.ok /\ last.error = Str(InvalidResponse)
                   /\ ExitedZero /\ json_loads(stdout).ok =>
                        last.ok /\ last.data = Str(json_loads(stdout).data)

\* C21 (amended): run_stdio_command always returns a structured result; a non-zero exit
\* gives ok=false with error equal to the redacted stderr stripped of the whitespace
\* around it, or the generic message when nothing is left; a zero exit with empty stdout
\* gives ok=true with no data; a zero exit with non-empty stdout that is not JSON gives
\* ok=false with the invalid-response error; a zero exit with valid JSON gives ok=true
\* with the parsed data; an expired timeout gives ok=false with the timeout error; the
\* timeout, invalid-response and generic messages differ from one another.
C21_StructuredOutcomes ==
    Returned =>
        /\ StructuredResult
        /\ Cardinality({TimedOut, InvalidResponse, CommandFailed}) = 3
        /\ last.proc.kind = "timeout" =>
             ~last.ok /\ last.data = None /\ last.error = Str(TimedOut)
        /\ last.proc.kind = "exited" =>
             \E order \in KeyOrders(EnvSafe) :
                LET stdout == redact(last.proc.stdout, EnvSafe, order)
                    stderr == redact(last.proc.stderr, EnvSafe, order)
                IN /\ ExitedNonZero =>
                        /\ ~last.ok /\ last.data = None
                        /\ last.error = Str(IF strip(stderr) = <<>> THEN CommandFailed
                                            ELSE strip(stderr))
                   /\ ExitedZero /\ stdout = <<>> =>
                        last.ok /\ last.data = None /\ last.error = None
                   /\ ExitedZero /\ stdout /= <<>> /\ ~json_loads(stdout).ok =>
                        ~last.ok /\ last.data = None /\ last.error = Str(InvalidResponse)
                   /\ ExitedZero /\ json_loads(stdout).ok =>
                        /\ last.ok /\ last.error = None
                        /\ last.data = Str(json_loads(stdout).data)

\* a failed process whose stderr ends in a newline has returned
C21_Witness ==
    /\ Returned
    /\ last.proc = Exited(1, <<>>, <<"n", "\n">>)
    /\ last.error = Str(<<"n">>)
    /\ ~last.ok

(***************************************************************************)
(* Remote replication                                                      *)
(***************************************************************************)
\* the callers whose last store_memory went to the remote store and has returned
Replicated == {w \in Writers : writer[w].pc = "idle" /\ writer[w].result.attempts > 0}

\* C22: remote replication in store_memory makes at most two attempts, never raises to
\* the caller and never changes the reported local result: a call that reached the
\* remote store returns with local status success and a remote status of success or
\* failure, whether the attempts succeed, return an error status or throw.
C22_RemoteNeverChangesLocal ==
    /\ \A w \in Writers :
          writer[w].pc = "remote" =>
              writer[w].attempts < REMOTE_ATTEMPTS /\ writer[w].local = "success"
    /\ \A w \in Replicated :
          /\ writer[w].result.attempts <= REMOTE_ATTEMPTS
          /\ writer[w].result.raised = "none"
          /\ writer[w].result.local = "success"
          /\ writer[w].result.remote \in {"success", "failure"}
          /\ writer[w].result.remote = "failure" =>
                 writer[w].result.remote_error = "remote_store_error"

\* a call has returned after two failed attempts, its local success kept
C22_Witness ==
    \E w \in Writers :
        /\ w \in Replicated
        /\ writer[w].result.attempts = REMOTE_ATTEMPTS
        /\ writer[w].result.remote = "failure"
        /\ writer[w].result.local = "success"

(***************************************************************************)
(* Failing closed                                                          *)
(***************************************************************************)
\* the record files of the calls that are still running
InFlight == {writer[w].file_path : w \in {x \in Writers : writer[x].pc /= "idle"}}

\* the record files of the calls that reported local success
StoredLocally == {local_stores[i].entry.file : i \in 1..Len(local_stores)}

\* the record files named by an entry of the index
Indexed ==
    IF index_file \in DOMAIN files
    THEN {files[index_file].content[i].file : i \in 1..Len(files[index_file].content)}
    ELSE {}

\* C23: store_memory fails closed: once a call has ended without reporting local success
\* (malformed record, failed redaction, failed write step), no record file of that call
\* exists under its final name and the index has no entry for it, so every record file
\* with a final name and every index entry belongs to a call that reported local
\* success or is still running.
C23_FailsClosed ==
    /\ \A path \in DOMAIN files :
          IsFinalName(path) /\ path.stem = "record" => path \in StoredLocally \cup InFlight
    /\ Indexed \subseteq StoredLocally \cup InFlight

(***************************************************************************)
(* The record sent to the remote store                                     *)
(***************************************************************************)
\* the records persisted in the record files of the memory directory
PersistedRecords ==
    {files[path].content :
        path \in {q \in DOMAIN files : IsFinalName(q) /\ q.stem = "record"}}

\* C28: the record that store_memory transmits to the remote store has had the same
\* secret redaction applied as the locally persisted record: every record the remote
\* store received is the record as persisted in a local record file, so nothing that
\* a redaction marker replaces in the local file is sent unredacted.
C28_RemoteRecordRedacted ==
    \A request \in remote_requests : request.record \in PersistedRecords

(***************************************************************************)
(* The overall readiness status                                            *)
(***************************************************************************)
Collected == last.op = "collect_readiness"

\* the statuses of the checks of the report
CheckStatuses == {last.checks[i].status : i \in 1..Len(last.checks)}

\* C24: collect_readiness reports overall status RED iff at least one check is RED,
\* YELLOW iff no check is RED and at least one is YELLOW, and GREEN iff every check is
\* GREEN; the overall status is always one of these three values.
C24_OverallStatus ==
    Collected =>
        /\ last.overall_status \in {"GREEN", "YELLOW", "RED"}
        /\ last.overall_status = "RED" <=> "RED" \in CheckStatuses
        /\ last.overall_status = "YELLOW" <=>
               "RED" \notin CheckStatuses /\ "YELLOW" \in CheckStatuses
        /\ last.overall_status = "GREEN" <=> CheckStatuses = {"GREEN"}

\* a report with a RED check next to YELLOW and GREEN ones
C24_Witness ==
    /\ Collected
    /\ CheckStatuses = {"GREEN", "YELLOW", "RED"}
    /\ last.overall_status = "RED"

(***************************************************************************)
(* Routing a call for a RED task                                           *)
(***************************************************************************)
\* route_call was given the tier of the task "rotate database credentials"
RoutedForRotate == Routed /\ last.risk_tier = TaskFacts[TaskRotate].risk_tier

TierReason == "Risk tier not allowed for MCP operations"

\* C25 as stated: for the task "rotate database credentials", classified RED, route_call
\* for any provider and any action, in any registry state, is denied with a reason that
\* cites the risk tier.
C25_RedTaskCitesTier ==
    RoutedForRotate =>
        /\ TaskFacts[TaskRotate].risk_tier = "RED"
        /\ ~last.permission.allowed
        /\ ~last.ok
        /\ last.error = TierReason

\* C25 (amended): for the task "rotate database credentials", classified RED, route_call
\* for any provider and any action, in any registry state, is denied without a call of
\* the adapter and with the tier check false in the check map; the reason cites the risk
\* tier exactly when the capability, provider and allowlist checks pass, and is the
\* reason of the first of these that fails otherwise.
C25_RedTaskDenied ==
    RoutedForRotate =>
        /\ TaskFacts[TaskRotate].risk_tier = "RED"
        /\ ~last.permission.allowed
        /\ ~last.ok
        /\ last.adapter_calls = 0
        /\ ~last.checks.risk_tier_allowed
        /\ last.error = last.permission.reason
        /\ last.error = TierReason <=>
              /\ last.checks.mcp_enabled
              /\ last.checks.provider_enabled
              /\ last.checks.action_allowed
        /\ last.error /= TierReason =>
              last.error = ReasonOfCheck[CHOOSE c \in {"mcp_enabled", "provider_enabled",
                                                       "action_allowed"} :
                                 /\ ~last.checks[c]
                                 /\ c = "provider_enabled" => last.checks.mcp_enabled
                                 /\ c = "action_allowed" => last.checks.provider_enabled]

\* a RED call for an allowlisted action of an enabled provider, denied for its tier
C25_Witness ==
    /\ RoutedForRotate
    /\ last.provider = "github"
    /\ last.action = "list_issues"
    /\ last.checks.action_allowed
    /\ last.checks.role_allowed
    /\ last.error = TierReason

(***************************************************************************)
(* The scenario "rotate database credentials"                              *)
(***************************************************************************)
\* 'secrets/env/prod credentials'
SecretsCategory == always_red_categories[3]

\* C26: classify_risk("rotate database credentials") returns RED and the classification
\* reason names the always-RED category "secrets/env/prod credentials".
C26_RotateNamesCategory ==
    (Classified /\ last.task = TaskRotate) =>
        /\ last.tier = "RED"
        /\ last.reason = <<"Always Red category", SecretsCategory>>

(***************************************************************************)
(* The scenario "search documentation for X"                               *)
(***************************************************************************)
\* the registry document held names "docs-search" enabled with the actions ["search"]
DocsSearchConfigured == ConfOf("docs-search") = DocsSearchOk

\* the providers that _get_provider_suggestions lists for a task
Suggested(task) ==
    {get_provider_suggestions(task)[i].provider_name :
        i \in 1..Len(get_provider_suggestions(task))}

\* C27: with a registry in which the provider "docs-search" is enabled with actions
\* ["search"] and readiness not RED, the task "search documentation for X" classifies
\* GREEN, the suggestions list "docs-search", and execute_auto_mcp_decision returns
\* execute_mcp with provider "docs-search" and action "search".
C27_DocsSearchScenario ==
    (Decided /\ last.task = TaskDocs /\ last.readiness_status /= "RED"
        /\ DocsSearchConfigured) =>
        /\ last.risk_tier = "GREEN"
        /\ "docs-search" \in Suggested(TaskDocs)
        /\ last.decision = "execute_mcp"
        /\ last.provider_action = <<"docs-search", "search">>

(***************************************************************************)
(* The autonomous decision and the gate; the local-tools branch            *)
(***************************************************************************)
\* C29: every execute_mcp decision returned by execute_auto_mcp_decision is admitted by
\* the permission gate when the autonomous caller routes it: on the same registry,
\* check_mcp_permissions(provider, action, "GREEN", "PLANNER") is allowed for the decided
\* provider and action.
C29_DecisionAdmittedByGate ==
    (Decided /\ last.decision = "execute_mcp") =>
        check_mcp_permissions(last.provider_action[1], last.provider_action[2],
                              "GREEN", "PLANNER").allowed

\* C30: execute_auto_mcp_decision never returns use_local_tools: for every task for
\* which the local-tool availability check is true, either the task is not classified
\* GREEN or its appropriateness is APPROPRIATE, so the local-tools branch is never taken.
C30_NeverUseLocalTools ==
    Decided =>
        /\ last.decision /= "use_local_tools"
        /\ TaskFacts[last.task].local_tools_available =>
              \/ last.risk_tier /= "GREEN"
              \/ TaskFacts[last.task].mcp_appropriate = "appropriate"

\* a GREEN task naming a provider with a local tool, capitalised, has been decided
C30_Witness ==
    /\ Decided
    /\ last.task = <<"o", "p", "e", "n", " ", "G", "i", "t", "H", "u", "b">>
    /\ TaskFacts[last.task].local_tools_available
    /\ last.risk_tier = "GREEN"
    /\ last.decision = "execute_mcp"
====
